---------------------------- MODULE Spec2Model ----------------------------
(***************************************************************************)
(* A model of booru-rs: the query builder (src/src/client/mod.rs) and the  *)
(* pagination engine (src/src/stream.rs).                                  *)
(*                                                                         *)
(* Vec indices and page numbers are 0-based as in the source; a Vec is a   *)
(* TLA+ sequence, so v[i] of the source is v[i + 1] here.                  *)
(***************************************************************************)
EXTENDS Integers, Sequences, FiniteSets, TLC

VARIABLES
    T,               \* the backend type parameter of ClientBuilder<T>
    tags,            \* ClientBuilder::tags
    limit,           \* ClientBuilder::limit
    page,            \* ClientBuilder::page (a u32)
    bstate,          \* where the builder value is: "building", "dropped", "built"
    bresult,         \* what the last builder operation returned
    credentials,     \* ClientBuilder::key and ClientBuilder::user
    url,             \* ClientBuilder::url
    requests,        \* the page fetches (Client::get) issued so far, oldest first
    fetched,         \* what the backend answered to each fetch of the stream
    stream,          \* which stream wraps the builder: "none", "PageStream", "PostStream"
    current_page,    \* PageStream::current_page (a u32)
    exhausted,       \* PageStream::exhausted
    max_pages,       \* PageStream::max_pages
    buffer,          \* PostStream::buffer
    buffer_index,    \* PostStream::buffer_index
    posts_yielded,   \* PostStream::posts_yielded
    max_posts,       \* PostStream::max_posts
    ret,             \* what the last next() returned
    returned,        \* every Some(..) a next() of the stream returned, oldest first
    overflow_checks, \* the build profile: TRUE panics on integer overflow, FALSE wraps
    collect,         \* PostStream::collect: where the call is, its all_posts, its result
    config,          \* the RetryConfig handed to with_retry
    attempt,         \* with_retry: attempt
    last_error,      \* with_retry: last_error
    invoked,         \* how many times with_retry has invoked the operation
    slept,           \* the delays with_retry has slept, oldest first
    retry,           \* with_retry: where the call is, and what it returned
    delay,           \* the last delay_for_attempt asked for: the attempt and the delay
    now,             \* the clock: what Instant::now() answers, in ticks
    capacity,        \* RateLimiterConfig::capacity
    refill_interval, \* RateLimiterConfig::refill_interval, in ticks
    tokens,          \* RateLimiterState::tokens, times refill_interval
    last_update,     \* RateLimiterState::last_update
    tasks,           \* where each task using the limiter is
    calls,           \* the calls on the limiter that have returned, oldest first
    ttl,             \* CacheConfig::ttl, in ticks
    max_entries,     \* CacheConfig::max_entries
    entries,         \* Cache::entries: for each key, the CacheEntry stored under it
    cache_tasks,     \* where each task using the cache is
    cache_ops,       \* how many calls have been made on the cache
    cache_ret,       \* the last call on the cache that returned, and its result
    latest,          \* for each key, the last insert call made for it that returned,
                     \* while nothing has taken the key out of the cache since
    applied,         \* the last call of a free function: its arguments and its result
    download         \* a call of Downloader::download_posts: its arguments, its
                     \* semaphore, the tasks it spawned and the results it collected

builderVars == <<T, tags, limit, page, bstate, bresult, credentials, url>>
netVars     == <<requests, fetched>>
streamVars  == <<stream, current_page, exhausted, max_pages, buffer, buffer_index,
                 posts_yielded, max_posts, ret, returned, overflow_checks>>
retryVars   == <<config, attempt, last_error, invoked, slept, retry, delay>>
limiterVars == <<capacity, refill_interval, tokens, last_update, tasks, calls>>
cacheVars   == <<ttl, max_entries, entries, cache_tasks, cache_ops, cache_ret, latest>>
callVars    == <<applied, download>>
otherVars   == <<collect, retryVars, now, limiterVars, cacheVars, callVars>>
vars        == <<builderVars, netVars, streamVars, otherVars>>

None == [some |-> FALSE]
Some(v) == [some |-> TRUE, v |-> v]

(***************************************************************************)
(* Bounds of the model.                                                    *)
(***************************************************************************)
MaxTagsLen == 3      \* longest tag list a builder operation may build
MaxIterLen == 3      \* longest iterator handed to tags / blacklist_tags
MaxFetches == 3      \* page fetches issued in one behaviour
MaxPageLen == 4      \* most posts the backend puts in one page
MaxPagesCap == 2     \* largest value handed to max_pages
MaxPostsCap == 3     \* largest value handed to max_posts
MaxRetries == 3      \* largest max_retries of a RetryConfig
MaxAttempt == 7      \* largest attempt number handed to delay_for_attempt
MaxCapacity == 2     \* largest capacity of a RateLimiter
MaxCalls == 4        \* calls made on a RateLimiter in one behaviour
MaxTime == 3         \* ticks the clock runs for
MaxEntries == 2      \* largest max_entries of a Cache
MaxCacheOps == 3     \* calls made on a Cache in one behaviour
MaxLruOps == 4       \* calls made on a Cache that only inserts and gets
MaxTagPieces == 4    \* most pieces a tag handed to validate_tag is made of
MaxDownloads == 3      \* posts handed to download_posts
MaxConcurrency == 2    \* the small values of download_posts' concurrency

(***************************************************************************)
(* u32 values.  TLC's integers stop at 2^31 - 1, so a u32 that can be near *)
(* u32::MAX is kept as <<high half, low half>>, 16 bits each.              *)
(***************************************************************************)
Half == 65536

U32(n) == <<n \div Half, n % Half>>

U32_MAX == <<Half - 1, Half - 1>>

U32Geq(a, b) == a[1] > b[1] \/ (a[1] = b[1] /\ a[2] >= b[2])

U32Sub(a, b) ==
    IF a[2] >= b[2] THEN <<a[1] - b[1], a[2] - b[2]>>
                    ELSE <<a[1] - b[1] - 1, a[2] + Half - b[2]>>

saturating_sub(a, b) == IF U32Geq(a, b) THEN U32Sub(a, b) ELSE U32(0)

\* a + 1 modulo 2^32
wrapping_add1(a) ==
    IF a[2] < Half - 1 THEN <<a[1], a[2] + 1>>
    ELSE IF a[1] < Half - 1 THEN <<a[1] + 1, 0>>
    ELSE U32(0)

(***************************************************************************)
(* The backends.                                                           *)
(***************************************************************************)
Backends == {"DanbooruClient", "GelbooruClient", "SafebooruClient", "Rule34Client"}

MAX_TAGS(t) == IF t = "DanbooruClient" THEN Some(2) ELSE None

SORT(t) == IF t = "DanbooruClient" THEN "order:" ELSE "sort:"

URL(t) ==
    CASE t = "DanbooruClient" -> "https://danbooru.donmai.us"
      [] t = "GelbooruClient" -> "https://gelbooru.com"
      [] t = "SafebooruClient" -> "https://safebooru.org"
      [] t = "Rule34Client" -> "https://api.rule34.xxx"

\* the inputs the builder operations are tried on
UserTags == {"cat_ears", "1girl"}
ApiKeys == {"your_api_key"}
UserIds == {"your_user_id"}
CustomUrls == {"http://127.0.0.1:1234"}
Ratings == {"General"}
Sorts == {"Score"}
Limits == {10, 100}
StartPages == {U32(0), U32(1), U32_MAX}

\* Display of a rating: the lower-cased variant name
RatingToString(r) ==
    CASE r = "General" -> "general"
      [] r = "Explicit" -> "explicit"
      [] r = "Questionable" -> "questionable"
      [] r = "Sensitive" -> "sensitive"
      [] r = "Safe" -> "safe"

\* Display of Sort
SortToString(s) ==
    CASE s = "Id" -> "id"
      [] s = "Score" -> "score"
      [] s = "Rating" -> "rating"
      [] s = "User" -> "user"
      [] s = "Height" -> "height"
      [] s = "Width" -> "width"
      [] s = "Source" -> "source"
      [] s = "Updated" -> "updated"
      [] s = "Random" -> "random"

RECURSIVE SeqsUpTo(_, _)
SeqsUpTo(S, n) ==
    IF n = 0 THEN {<<>>}
    ELSE LET shorter == SeqsUpTo(S, n - 1)
         IN  shorter \cup {Append(s, x) : s \in shorter, x \in S}

\* a join that puts the strings last first
RECURSIVE join_reversed(_, _)
join_reversed(ts, sep) ==
    IF ts = <<>> THEN ""
    ELSE IF Len(ts) = 1 THEN ts[1]
    ELSE join_reversed(Tail(ts), sep) \o sep \o ts[1]

\* <[String]>::join
RECURSIVE join(_, _)
join(ts, sep) ==
    IF ts = <<>> THEN ""
    ELSE IF Len(ts) = 1 THEN ts[1]
    ELSE ts[1] \o sep \o join(Tail(ts), sep)

(***************************************************************************)
(* ClientBuilder.                                                          *)
(***************************************************************************)
Ok(ts) == [ok |-> TRUE, tags |-> ts]

\* the error with the limit plus one as the count attempted
TagLimitExceeded_actual_over_max(t, max, ts) ==
    [ok |-> FALSE, tags |-> ts,
     err |-> [kind |-> "TagLimitExceeded", client |-> t, max |-> max,
              actual |-> max + 1]]

TagLimitExceeded(t, max, ts) ==
    [ok |-> FALSE, tags |-> ts,
     err |-> [kind |-> "TagLimitExceeded", client |-> t, max |-> max,
              actual |-> Len(ts) + 1]]

\* tag with the limit test off by one
tag_limit_off_by_one(t, ts, tag_) ==
    IF MAX_TAGS(t).some /\ Len(ts) > MAX_TAGS(t).v
    THEN TagLimitExceeded(t, MAX_TAGS(t).v, ts)
    ELSE Ok(Append(ts, tag_))

\* ClientBuilder::tag on a builder holding ts: the value it returns, and the
\* tags the builder holds when it returns
tag(t, ts, tag_) ==
    IF MAX_TAGS(t).some /\ Len(ts) >= MAX_TAGS(t).v
    THEN TagLimitExceeded(t, MAX_TAGS(t).v, ts)
    ELSE Ok(Append(ts, tag_))

\* ClientBuilder::tags: tag by tag, stopping at the first error
RECURSIVE tags_iter(_, _, _)
tags_iter(t, ts, iter) ==
    IF iter = <<>> THEN Ok(ts)
    ELSE LET r == tag(t, ts, Head(iter))
         IN  IF r.ok THEN tags_iter(t, r.tags, Tail(iter)) ELSE r

rating_tag(r) == "rating:" \o RatingToString(r)

random_tag(t) == SORT(t) \o "random"

sort_tag(t, order) == SORT(t) \o SortToString(order)

blacklist(tag_) == "-" \o tag_

RECURSIVE blacklist_iter(_, _)
blacklist_iter(ts, iter) ==
    IF iter = <<>> THEN ts
    ELSE blacklist_iter(Append(ts, blacklist(Head(iter))), Tail(iter))


\* the value a builder operation returned
Returned(r) == IF r.ok THEN [ok |-> TRUE] ELSE [ok |-> FALSE, err |-> r.err]

\* ClientBuilder::new
BuilderInit ==
    /\ T \in Backends
    /\ tags = <<>>
    /\ limit = 100
    /\ page = U32(0)
    /\ bstate = "building"
    /\ bresult = [ok |-> TRUE]
    /\ credentials = None
    /\ url = URL(T)

\* a fallible operation took the builder by value: Ok hands it back, Err drops it
Fallible(r) ==
    /\ tags' = r.tags
    /\ bstate' = IF r.ok THEN "building" ELSE "dropped"
    /\ bresult' = Returned(r)
    /\ UNCHANGED <<credentials, url, T, limit, page, netVars, streamVars, otherVars>>

\* an infallible operation hands the builder back holding ts
Infallible(ts) ==
    /\ tags' = ts
    /\ bresult' = [ok |-> TRUE]
    /\ UNCHANGED <<credentials, url, T, limit, page, bstate, netVars, streamVars, otherVars>>

CanGrow(n) == bstate = "building" /\ Len(tags) + n <= MaxTagsLen

\* the call leaves the builder with a list within the bound
Fits(r) == bstate = "building" /\ Len(r.tags) <= MaxTagsLen

ClientBuilder_tag ==
    \E t \in UserTags :
        /\ Fits(tag(T, tags, t))
        /\ Fallible(tag(T, tags, t))

ClientBuilder_tags_of(iter) ==
    /\ Fits(tags_iter(T, tags, iter))
    /\ Fallible(tags_iter(T, tags, iter))

ClientBuilder_tags ==
    \E iter \in SeqsUpTo(UserTags, MaxIterLen) : ClientBuilder_tags_of(iter)

ClientBuilder_rating ==
    /\ CanGrow(1)
    /\ \E r \in Ratings : Infallible(Append(tags, rating_tag(r)))

ClientBuilder_random ==
    /\ CanGrow(1)
    /\ Infallible(Append(tags, random_tag(T)))

ClientBuilder_sort ==
    /\ CanGrow(1)
    /\ \E order \in Sorts : Infallible(Append(tags, sort_tag(T, order)))

ClientBuilder_blacklist_tag ==
    /\ CanGrow(1)
    /\ \E t \in UserTags : Infallible(Append(tags, blacklist(t)))

ClientBuilder_blacklist_tags ==
    \E iter \in SeqsUpTo(UserTags, MaxIterLen) :
        /\ CanGrow(Len(iter))
        /\ Infallible(blacklist_iter(tags, iter))

ClientBuilder_limit ==
    /\ bstate = "building"
    /\ \E n \in Limits : limit' = n
    /\ bresult' = [ok |-> TRUE]
    /\ UNCHANGED <<credentials, url, T, tags, page, bstate, netVars, streamVars, otherVars>>

ClientBuilder_page ==
    /\ bstate = "building"
    /\ \E n \in StartPages : page' = n
    /\ bresult' = [ok |-> TRUE]
    /\ UNCHANGED <<credentials, url, T, tags, limit, bstate, netVars, streamVars, otherVars>>

ClientBuilder_set_credentials ==
    /\ bstate = "building"
    /\ \E k \in ApiKeys, u \in UserIds : credentials' = Some([key |-> k, user |-> u])
    /\ bresult' = [ok |-> TRUE]
    /\ UNCHANGED <<url, T, tags, limit, page, bstate, netVars, streamVars, otherVars>>

ClientBuilder_with_custom_url ==
    /\ bstate = "building"
    /\ \E u \in CustomUrls : url' = u
    /\ bresult' = [ok |-> TRUE]
    /\ UNCHANGED <<credentials, T, tags, limit, page, bstate, netVars, streamVars,
                   otherVars>>

ClientBuilder_default_url ==
    /\ bstate = "building"
    /\ \E u \in CustomUrls : url' = u
    /\ bresult' = [ok |-> TRUE]
    /\ UNCHANGED <<credentials, T, tags, limit, page, bstate, netVars, streamVars,
                   otherVars>>

\* ClientBuilder::build: the descriptor is frozen into a client, no I/O
ClientBuilder_build ==
    /\ bstate = "building"
    /\ bstate' = "built"
    /\ bresult' = [ok |-> TRUE]
    /\ UNCHANGED <<credentials, url, T, tags, limit, page, netVars, streamVars, otherVars>>

\* the request a client built from the descriptor sends for page p
Request(p) ==
    [client |-> T, tags |-> tags, limit |-> limit, page |-> p,
     tag_string |-> join(tags, " "), credentials |-> credentials, url |-> url]

\* Client::get on the built client: one page fetch
Client_get ==
    /\ bstate = "built"
    /\ requests = <<>>
    /\ requests' = Append(requests, Request(page))
    /\ UNCHANGED <<builderVars, fetched, streamVars, otherVars>>

(***************************************************************************)
(* The backend, seen from Client::get: an error, or a page of posts.  The  *)
(* i-th post (from 0) of the page answering the k-th fetch is <<k, i>>.    *)
(***************************************************************************)
Errors == {"Request", "Parse"}

PageOf(k, n) == [i \in 1..n |-> <<k, i - 1>>]

Answers(k) ==
    {[ok |-> TRUE, posts |-> PageOf(k, n)] : n \in 0..MaxPageLen}
        \cup {[ok |-> FALSE, err |-> e] : e \in Errors}

\* values of Option<Result<..>> returned by next(), and a panic in its place
RetNone == [kind |-> "None"]
RetOk(v) == [kind |-> "Ok", v |-> v]
RetErr(e) == [kind |-> "Err", err |-> e]
RetPanic == [kind |-> "panic"]
Uncalled == [kind |-> "uncalled"]

(***************************************************************************)
(* PageStream.                                                             *)
(***************************************************************************)
\* the max pages test of PageStream::next
pages_fetched(cur, start) == saturating_sub(cur, start)

limit_reached(cur, start, maxp) ==
    maxp.some /\ U32Geq(pages_fetched(cur, start), U32(maxp.v))

\* PageStream::next reaches client.get()
page_fetches(exh, cur, start, maxp) == ~exh /\ ~limit_reached(cur, start, maxp)

\* a match on the answer that leaves the stream active after an error
page_match_error_keeps_active(cur, ans, oc) ==
    IF ~ans.ok
    THEN [ret |-> RetErr(ans.err), exhausted |-> FALSE, current_page |-> cur]
    ELSE IF ans.posts = <<>>
    THEN [ret |-> RetOk(ans.posts), exhausted |-> TRUE, current_page |-> cur]
    ELSE IF cur = U32_MAX /\ oc
    THEN [ret |-> RetPanic, exhausted |-> FALSE, current_page |-> cur]
    ELSE [ret |-> RetOk(ans.posts), exhausted |-> FALSE,
          current_page |-> wrapping_add1(cur)]

\* a match on the answer that returns None for an empty page
page_match_none_on_empty(cur, ans, oc) ==
    IF ~ans.ok
    THEN [ret |-> RetErr(ans.err), exhausted |-> TRUE, current_page |-> cur]
    ELSE IF ans.posts = <<>>
    THEN [ret |-> RetNone, exhausted |-> TRUE, current_page |-> cur]
    ELSE IF cur = U32_MAX /\ oc
    THEN [ret |-> RetPanic, exhausted |-> FALSE, current_page |-> cur]
    ELSE [ret |-> RetOk(ans.posts), exhausted |-> FALSE,
          current_page |-> wrapping_add1(cur)]

\* the match on client.get().await of PageStream::next, the cursor at cur.
\* current_page += 1 overflows at u32::MAX: a panic with overflow checks, a
\* wrap to 0 without.
page_match(cur, ans, oc) ==
    IF ~ans.ok
    THEN [ret |-> RetErr(ans.err), exhausted |-> TRUE, current_page |-> cur]
    ELSE IF ans.posts = <<>>
    THEN [ret |-> RetOk(ans.posts), exhausted |-> TRUE, current_page |-> cur]
    ELSE IF cur = U32_MAX /\ oc
    THEN [ret |-> RetPanic, exhausted |-> FALSE, current_page |-> cur]
    ELSE [ret |-> RetOk(ans.posts), exhausted |-> FALSE,
          current_page |-> wrapping_add1(cur)]

\* PageStream::next that does not test the exhausted flag
page_next_ignores_exhausted(exh, cur, start, maxp, ans, oc) ==
    IF limit_reached(cur, start, maxp)
    THEN [ret |-> RetNone, exhausted |-> TRUE, current_page |-> cur]
    ELSE page_match(cur, ans, oc)

\* PageStream::next on a stream in state (exh, cur, maxp) started at page start,
\* when the backend answers ans to the fetch (if one is issued): what it returns
\* and the state it leaves
page_next(exh, cur, start, maxp, ans, oc) ==
    IF exh
    THEN [ret |-> RetNone, exhausted |-> exh, current_page |-> cur]
    ELSE IF limit_reached(cur, start, maxp)
    THEN [ret |-> RetNone, exhausted |-> TRUE, current_page |-> cur]
    ELSE page_match(cur, ans, oc)

\* the Some(..) values appended to the record of what next() returned
Record(r) == IF r.kind \in {"Ok", "Err"} THEN Append(returned, r) ELSE returned

\* PostStream::collect has not been called
NoCollect == collect = [pc |-> "idle", all_posts |-> <<>>, since |-> 0, result |-> Uncalled]

\* the stream is usable: it exists, no next() on it has panicked and collect,
\* which takes the stream by value, has not been called on it
Live(kind) == stream = kind /\ ret.kind # "panic" /\ collect.pc = "idle"

\* what the backend can answer when the call fetches; a placeholder otherwise
Backend(fetches) ==
    IF fetches THEN Answers(Len(requests) + 1) ELSE {[ok |-> FALSE, err |-> "unused"]}

\* the fetch of the page at the cursor, answered ans
Fetch(fetches, ans) ==
    IF fetches
    THEN /\ requests' = Append(requests, Request(current_page))
         /\ fetched' = Append(fetched, ans)
    ELSE UNCHANGED netVars

PageStream_next ==
    /\ Live("PageStream")
    /\ LET fetches == page_fetches(exhausted, current_page, page, max_pages)
       IN  /\ fetches => Len(requests) < MaxFetches
           /\ \E ans \in Backend(fetches) :
                LET r == page_next(exhausted, current_page, page, max_pages,
                                   ans, overflow_checks)
                IN  /\ Fetch(fetches, ans)
                    /\ ret' = r.ret
                    /\ returned' = Record(r.ret)
                    /\ exhausted' = r.exhausted
                    /\ current_page' = r.current_page
    /\ UNCHANGED <<builderVars, stream, max_pages, buffer, buffer_index,
                   posts_yielded, max_posts, overflow_checks, otherVars>>

PageStream_max_pages ==
    /\ Live("PageStream")
    /\ \E max \in 0..MaxPagesCap : max_pages' = Some(max)
    /\ UNCHANGED <<builderVars, netVars, stream, current_page, exhausted, buffer,
                   buffer_index, posts_yielded, max_posts, ret, returned,
                   overflow_checks, otherVars>>

(***************************************************************************)
(* PostStream.                                                             *)
(***************************************************************************)
\* Vec::swap_remove(i): the element at i, and the Vec with the last element
\* moved into its place
swap_remove(v, i) ==
    [item |-> v[i + 1],
     vec  |-> [j \in 1..(Len(v) - 1) |-> IF j = i + 1 THEN v[Len(v)] ELSE v[j]]]

\* the max posts test, off by one
cap_reached_off_by_one(yielded, maxp) == maxp.some /\ yielded > maxp.v

\* the max posts test of PostStream::next
cap_reached(yielded, maxp) == maxp.some /\ yielded >= maxp.v

\* the buffer has a post at buffer_index
buffered(buf, idx) == idx < Len(buf)

\* PostStream::next reaches page_stream.next()
post_polls(buf, idx, yielded, maxp) ==
    ~cap_reached(yielded, maxp) /\ ~buffered(buf, idx)

\* the branch of PostStream::next that takes a post out of the buffer
post_from_buffer(buf, idx, yielded) ==
    LET r == swap_remove(buf, idx)
    IN  [ret |-> RetOk(r.item), buffer |-> r.vec, buffer_index |-> 0,
         posts_yielded |-> yielded + 1]

\* the match on page_stream.next().await? of PostStream::next: pr is what the
\* page stream returned
post_from_page(pr, buf, idx, yielded) ==
    IF pr.kind = "Ok" /\ pr.v # <<>>
    THEN [ret |-> RetOk(swap_remove(pr.v, 0).item),
          buffer |-> swap_remove(pr.v, 0).vec, buffer_index |-> 1,
          posts_yielded |-> yielded + 1]
    ELSE [ret |-> IF pr.kind = "Ok" THEN RetNone ELSE pr,
          buffer |-> buf, buffer_index |-> idx, posts_yielded |-> yielded]

\* PostStream::next: what it returns and the buffer, index and count it
\* leaves, pr being what page_stream.next() returns if it is reached
post_next(buf, idx, yielded, maxp, pr) ==
    IF cap_reached(yielded, maxp)
    THEN [ret |-> RetNone, buffer |-> buf, buffer_index |-> idx,
          posts_yielded |-> yielded]
    ELSE IF buffered(buf, idx)
    THEN post_from_buffer(buf, idx, yielded)
    ELSE post_from_page(pr, buf, idx, yielded)

\* one call of self.next() on the PostStream: the fetch it may issue, the
\* state it leaves and what it returns
PostStream_call ==
    LET polls == post_polls(buffer, buffer_index, posts_yielded, max_posts)
        fetches == polls /\ page_fetches(exhausted, current_page, page, max_pages)
    IN  /\ fetches => Len(requests) < MaxFetches
        /\ \E ans \in Backend(fetches) :
             LET p == page_next(exhausted, current_page, page, max_pages,
                                ans, overflow_checks)
                 r == post_next(buffer, buffer_index, posts_yielded,
                                max_posts, p.ret)
             IN  /\ Fetch(fetches, ans)
                 /\ exhausted' = IF polls THEN p.exhausted ELSE exhausted
                 /\ current_page' = IF polls THEN p.current_page ELSE current_page
                 /\ ret' = r.ret
                 /\ returned' = Record(r.ret)
                 /\ buffer' = r.buffer
                 /\ buffer_index' = r.buffer_index
                 /\ posts_yielded' = r.posts_yielded

PostStream_next ==
    /\ Live("PostStream")
    /\ PostStream_call
    /\ UNCHANGED <<builderVars, stream, max_pages, max_posts, overflow_checks,
                   otherVars>>

PostStream_max_posts ==
    /\ Live("PostStream")
    /\ \E max \in 0..MaxPostsCap : max_posts' = Some(max)
    /\ UNCHANGED <<builderVars, netVars, stream, current_page, exhausted,
                   max_pages, buffer, buffer_index, posts_yielded, ret, returned,
                   overflow_checks, otherVars>>

PostStream_max_pages ==
    /\ Live("PostStream")
    /\ \E max \in 0..MaxPagesCap : max_pages' = Some(max)
    /\ UNCHANGED <<builderVars, netVars, stream, current_page, exhausted, buffer,
                   buffer_index, posts_yielded, max_posts, ret, returned,
                   overflow_checks, otherVars>>

\* a loop body of collect that returns what it gathered when next() fails
collect_keeps_partial(all_posts, r) ==
    CASE r.kind = "None" -> [pc |-> "returned", all_posts |-> <<>>, result |-> RetOk(all_posts)]
      [] r.kind = "Err" -> [pc |-> "returned", all_posts |-> <<>>, result |-> RetOk(all_posts)]
      [] r.kind = "panic" -> [pc |-> "panicked", all_posts |-> <<>>, result |-> Uncalled]
      [] r.kind = "Ok" -> [pc |-> "running", all_posts |-> Append(all_posts, r.v),
                           result |-> Uncalled]

\* one turn of the loop of PostStream::collect, r being what self.next()
\* returned: None ends the loop with Ok(all_posts), result? returns an Err
\* and drops all_posts, a post is pushed
collect_loop(all_posts, r) ==
    CASE r.kind = "None" -> [pc |-> "returned", all_posts |-> <<>>, result |-> RetOk(all_posts)]
      [] r.kind = "Err" -> [pc |-> "returned", all_posts |-> <<>>, result |-> RetErr(r.err)]
      [] r.kind = "panic" -> [pc |-> "panicked", all_posts |-> <<>>, result |-> Uncalled]
      [] r.kind = "Ok" -> [pc |-> "running", all_posts |-> Append(all_posts, r.v),
                           result |-> Uncalled]

\* PostStream::collect, one turn of its loop per step: the call takes the
\* stream by value, so nothing else touches the stream once it has started.
\* since is the number of Some(..) values next() had returned before the call.
PostStream_collect ==
    /\ stream = "PostStream"
    /\ ret.kind # "panic"
    /\ collect.pc \in {"idle", "running"}
    /\ PostStream_call
    /\ LET turn == collect_loop(collect.all_posts, ret')
       IN  collect' = [pc |-> turn.pc, all_posts |-> turn.all_posts,
                       since |-> IF collect.pc = "idle" THEN Len(returned)
                                 ELSE collect.since,
                       result |-> turn.result]
    /\ UNCHANGED <<builderVars, stream, max_pages, max_posts, overflow_checks,
                   retryVars, now, limiterVars, cacheVars, callVars>>

(***************************************************************************)
(* The retry engine (src/src/retry.rs).  A Duration is a whole number of   *)
(* microseconds.  A backoff factor is a fraction <<numerator, denominator>>*)
(* whose denominator is a power of two, so that the f64 arithmetic of the  *)
(* source is exact on the values used here.                                *)
(***************************************************************************)
DEFAULT_MAX_RETRIES == 3
DEFAULT_INITIAL_DELAY_MS == 100
DEFAULT_MAX_DELAY_MS == 5000

\* Duration::from_millis, Duration::from_micros and Duration::as_millis
from_millis(ms) == ms * 1000
from_micros(us) == us
as_millis(d) == d \div 1000

\* RetryConfig::default
RetryConfig_default ==
    [max_retries |-> DEFAULT_MAX_RETRIES,
     initial_delay |-> from_millis(DEFAULT_INITIAL_DELAY_MS),
     max_delay |-> from_millis(DEFAULT_MAX_DELAY_MS),
     backoff_factor |-> <<2, 1>>]

\* the values handed to with_initial_delay, with_max_delay, with_backoff_factor
InitialDelays == {from_millis(DEFAULT_INITIAL_DELAY_MS), from_micros(1500)}
MaxDelays == {from_millis(DEFAULT_MAX_DELAY_MS), from_millis(150)}
BackoffFactors == {<<2, 1>>, <<3, 2>>, <<1, 1>>}

\* RetryConfig::new(m) followed by the with_ setters
Configs ==
    {[max_retries |-> m, initial_delay |-> i, max_delay |-> x, backoff_factor |-> f] :
        m \in 0..MaxRetries, i \in InitialDelays, x \in MaxDelays, f \in BackoffFactors}

RECURSIVE Pow(_, _)
Pow(b, e) == IF e = 0 THEN 1 ELSE b * Pow(b, e - 1)

\* f64::powi on a fraction
powi(f, e) == <<Pow(f[1], e), Pow(f[2], e)>>

\* RetryConfig::delay_for_attempt.  delay_ms is the f64 product
\* as_millis(initial_delay) * backoff_factor^(attempt - 1), and `as u64` drops
\* its fraction.  attempt stays far below 2^31, where `as i32` changes nothing.
delay_for_attempt(cfg, n) ==
    IF n = 0 THEN 0
    ELSE LET pw == powi(cfg.backoff_factor, n - 1)
             delay_ms == <<as_millis(cfg.initial_delay) * pw[1], pw[2]>>
             delay_ == from_millis(delay_ms[1] \div delay_ms[2])
         IN  IF delay_ <= cfg.max_delay THEN delay_ ELSE cfg.max_delay

\* the errors an operation can fail with: the variants of BooruError, a Request
\* carrying what reqwest::Error answers to is_timeout, is_connect, status and
\* is_request
RequestError(tmo, con, st, req) ==
    [kind |-> "Request", is_timeout |-> tmo, is_connect |-> con, status |-> st,
     is_request |-> req]

RequestErrors ==
    {RequestError(TRUE, FALSE, None, TRUE), RequestError(FALSE, TRUE, None, TRUE),
     RequestError(FALSE, FALSE, Some(503), FALSE),
     RequestError(FALSE, FALSE, Some(404), FALSE),
     RequestError(FALSE, FALSE, None, TRUE), RequestError(FALSE, FALSE, None, FALSE)}

NonRequestKinds ==
    {"Parse", "TagLimitExceeded", "PostNotFound", "EmptyResponse", "InvalidUrl",
     "Unauthorized", "InvalidTag", "RateLimited", "Io"}

BooruErrors == RequestErrors \cup {[kind |-> k] : k \in NonRequestKinds}

\* StatusCode::is_server_error
is_server_error(status) == 500 <= status /\ status < 600

\* is_retryable that retries I/O errors too
is_retryable_io(error) ==
    IF error.kind = "Request"
    THEN IF error.is_timeout \/ error.is_connect THEN TRUE
         ELSE IF error.status.some THEN is_server_error(error.status.v)
         ELSE error.is_request
    ELSE error.kind \in {"RateLimited", "Io"}

\* is_retryable
is_retryable(error) ==
    IF error.kind = "Request"
    THEN IF error.is_timeout \/ error.is_connect THEN TRUE
         ELSE IF error.status.some THEN is_server_error(error.status.v)
         ELSE error.is_request
    ELSE error.kind = "RateLimited"

\* what the operation can answer
Outcomes == {[ok |-> TRUE]} \cup {[ok |-> FALSE, err |-> e] : e \in BooruErrors}

\* the match of with_retry that sleeps after its last failure too
retry_match_sleeps_before_return(cfg, att, out) ==
    IF out.ok
    THEN [pc |-> "returned", result |-> RetOk("result"), attempt |-> att, sleeps |-> FALSE]
    ELSE IF att >= cfg.max_retries \/ ~is_retryable(out.err)
    THEN [pc |-> "returned", result |-> RetErr(out.err), attempt |-> att + 1,
          sleeps |-> TRUE]
    ELSE [pc |-> "loop", result |-> Uncalled, attempt |-> att + 1, sleeps |-> TRUE]

\* the match of with_retry with the retry test off by one
retry_match_off_by_one(cfg, att, out) ==
    IF out.ok
    THEN [pc |-> "returned", result |-> RetOk("result"), attempt |-> att, sleeps |-> FALSE]
    ELSE IF att > cfg.max_retries \/ ~is_retryable(out.err)
    THEN [pc |-> "returned", result |-> RetErr(out.err), attempt |-> att, sleeps |-> FALSE]
    ELSE [pc |-> "loop", result |-> Uncalled, attempt |-> att + 1, sleeps |-> TRUE]

\* the match on operation().await of with_retry: where the call goes, what it
\* returns, the attempt number it leaves and whether it sleeps
retry_match(cfg, att, out) ==
    IF out.ok
    THEN [pc |-> "returned", result |-> RetOk("result"), attempt |-> att, sleeps |-> FALSE]
    ELSE IF att >= cfg.max_retries \/ ~is_retryable(out.err)
    THEN [pc |-> "returned", result |-> RetErr(out.err), attempt |-> att, sleeps |-> FALSE]
    ELSE [pc |-> "loop", result |-> Uncalled, attempt |-> att + 1, sleeps |-> TRUE]

\* with_retry has not been called on cfg
RetryIdle(cfg) ==
    /\ config = cfg
    /\ attempt = 0
    /\ last_error = None
    /\ invoked = 0
    /\ slept = <<>>
    /\ retry = [pc |-> "idle", result |-> Uncalled]
    /\ delay = None

NoRetry == RetryIdle(RetryConfig_default)

\* with_retry, one turn of its loop per step: the operation is invoked and
\* awaited, its outcome matched, and the delay slept before the next turn
with_retry ==
    /\ retry.pc \in {"idle", "loop"}
    /\ \E out \in Outcomes :
         LET r == retry_match(config, attempt, out)
         IN  /\ invoked' = invoked + 1
             /\ last_error' = IF out.ok THEN last_error ELSE Some(out.err)
             /\ attempt' = r.attempt
             /\ slept' = IF r.sleeps
                         THEN Append(slept, delay_for_attempt(config, r.attempt))
                         ELSE slept
             /\ retry' = [pc |-> r.pc, result |-> r.result]
    /\ UNCHANGED <<callVars, builderVars, netVars, streamVars, collect, config, delay, now,
                   limiterVars, cacheVars>>

\* delay_for_attempt on its own, as the tests of the module call it
RetryConfig_delay_for_attempt ==
    /\ retry.pc = "idle"
    /\ \E n \in 0..MaxAttempt :
         delay' = Some([attempt |-> n, delay |-> delay_for_attempt(config, n)])
    /\ UNCHANGED <<callVars, builderVars, netVars, streamVars, collect, config, attempt,
                   last_error, invoked, slept, retry, now, limiterVars,
                   cacheVars>>

(***************************************************************************)
(* The rate limiter (src/src/ratelimit.rs).  Time is counted in ticks and  *)
(* refill_interval is a whole number of ticks, at least one.  tokens holds *)
(* the f64 of the source times refill_interval, which makes every value    *)
(* the source computes a whole number: one token is refill_interval, a     *)
(* full bucket capacity * refill_interval, and elapsed ticks refill        *)
(* elapsed * capacity.  The arithmetic is exact, where that of the source  *)
(* rounds to an f64.                                                       *)
(***************************************************************************)
Min(a, b) == IF a <= b THEN a ELSE b

Tasks == {"t1", "t2"}

RefillIntervals == {2, 3}

\* 1.0, state.tokens >= 1.0, state.tokens -= 1.0 and state.tokens as u32
one_token(interval) == interval
has_token(tok, interval) == tok >= one_token(interval)
as_u32(tok, interval) == tok \div interval

\* refill_tokens with no cap at capacity
refill_uncapped(tok, last, cap, interval, time) ==
    IF time - last > 0
    THEN [tokens |-> tok + (time - last) * cap, last_update |-> time]
    ELSE [tokens |-> tok, last_update |-> last]

\* refill_tokens that moves last_update and accrues nothing
refill_without_accrual(tok, last, cap, interval, time) ==
    IF time - last > 0
    THEN [tokens |-> tok, last_update |-> time]
    ELSE [tokens |-> tok, last_update |-> last]

\* RateLimiter::refill_tokens at time `time`: the tokens and last_update it leaves
refill_tokens(tok, last, cap, interval, time) ==
    IF time - last > 0
    THEN [tokens |-> Min(tok + (time - last) * cap, cap * interval),
          last_update |-> time]
    ELSE [tokens |-> tok, last_update |-> last]

\* a try_acquire that consumes a token it does not hold
take_unchecked(tok, interval) ==
    [taken |-> TRUE, tokens |-> tok - one_token(interval)]

\* the test and decrement of try_acquire, after the refill
take(tok, interval) ==
    IF has_token(tok, interval)
    THEN [taken |-> TRUE, tokens |-> tok - one_token(interval)]
    ELSE [taken |-> FALSE, tokens |-> tok]

\* an acquire that takes no token, however many there are, and looks again
\* at once
acquire_section_spins(tok, cap, interval) ==
    [pc |-> "sleeping", tokens |-> tok, wait_time |-> <<0, 1>>]

\* an acquire that returns at once whether or not it found a token
acquire_section_without_wait(tok, cap, interval) ==
    [pc |-> "idle", tokens |-> tok - one_token(interval), wait_time |-> <<0, 1>>]

\* the critical section of acquire, after the refill: with a token it takes it
\* and returns; without, it leaves with wait_time = tokens_needed / refill_rate,
\* in ticks the fraction <<refill_interval - tokens, capacity>>.  With capacity
\* 0 the quotient is infinite and Duration::from_secs_f64 panics.
acquire_section(tok, cap, interval) ==
    IF has_token(tok, interval)
    THEN [pc |-> "idle", tokens |-> tok - one_token(interval), wait_time |-> <<0, 1>>]
    ELSE IF cap = 0
    THEN [pc |-> "panicked", tokens |-> tok, wait_time |-> <<0, 1>>]
    ELSE [pc |-> "sleeping", tokens |-> tok,
          wait_time |-> <<one_token(interval) - tok, cap>>]

Idle == [pc |-> "idle", since |-> 0, wait_time |-> <<0, 1>>]

\* tokio::time::sleep(wait_time) started at since is over
slept_enough(task) == (now - task.since) * task.wait_time[2] >= task.wait_time[1]

\* RateLimiter::new(cap, interval)
RateLimiter_new(cap, interval) ==
    /\ capacity = cap
    /\ refill_interval = interval
    /\ tokens = cap * interval
    /\ last_update = now
    /\ tasks = [t \in Tasks |-> Idle]
    /\ calls = <<>>

\* RateLimiter::default_booru, one second being 2 ticks
NoLimiter == now = 0 /\ RateLimiter_new(2, 2)

Refilled == refill_tokens(tokens, last_update, capacity, refill_interval, now)

Returns(op, result) ==
    calls' = Append(calls, [op |-> op, result |-> result, at |-> now])

CallStarts(t) == tasks[t].pc = "idle" /\ Len(calls) < MaxCalls

OffLimiter == <<builderVars, netVars, streamVars, collect, retryVars, cacheVars, callVars>>

RateLimiter_try_acquire(t) ==
    /\ CallStarts(t)
    /\ LET r == take(Refilled.tokens, refill_interval)
       IN  /\ tokens' = r.tokens
           /\ last_update' = Refilled.last_update
           /\ Returns("try_acquire", r.taken)
    /\ UNCHANGED <<OffLimiter, now, capacity, refill_interval, tasks>>

RateLimiter_available(t) ==
    /\ CallStarts(t)
    /\ tokens' = Refilled.tokens
    /\ last_update' = Refilled.last_update
    /\ Returns("available", as_u32(Refilled.tokens, refill_interval))
    /\ UNCHANGED <<OffLimiter, now, capacity, refill_interval, tasks>>

\* RateLimiter::acquire, one turn of its loop per step: the critical section,
\* entered when the call starts and again each time its sleep is over
RateLimiter_acquire(t) ==
    /\ \/ CallStarts(t)
       \/ tasks[t].pc = "sleeping" /\ slept_enough(tasks[t])
    /\ LET r == acquire_section(Refilled.tokens, capacity, refill_interval)
       IN  /\ tokens' = r.tokens
           /\ last_update' = Refilled.last_update
           /\ tasks' = [tasks EXCEPT ![t] = [pc |-> r.pc, since |-> now,
                                             wait_time |-> r.wait_time]]
           /\ IF r.pc = "idle" THEN Returns("acquire", TRUE)
              ELSE UNCHANGED calls
    /\ UNCHANGED <<OffLimiter, now, capacity, refill_interval>>

(***************************************************************************)
(* The response cache (src/src/cache.rs).  A value is stored as the JSON   *)
(* text serde_json writes for it and read back as the type get is asked    *)
(* for.  Each section of a call that runs under the RwLock is one step.    *)
(***************************************************************************)
Keys == {"a", "b", "c"}
\* the keys the tasks sharing a cache make their calls with
FewKeys == {"a", "b"}

Ttls == {0, 2}

\* the values handed to insert: two integers, the float f64::INFINITY,
\* and a map whose keys are not strings
I32(n) == [type |-> "i32", i |-> n]
F64(x) == [type |-> "f64", x |-> x]
Bool(b) == [type |-> "bool", b |-> b]
TupleKeyMap == [type |-> "HashMap<(i32, i32), i32>", map |-> "{(1, 2): 3}"]
Values == {I32(1), I32(2), F64("inf"), TupleKeyMap}

\* the types get is asked for
Types == {"i32", "f64", "HashMap<(i32, i32), i32>"}

\* serde_json::to_vec: an integer is written in decimal, a float that is not
\* finite as null, and a map key must be a string
to_vec(value) ==
    CASE value.type = "i32" -> [ok |-> TRUE, data |-> ToString(value.i)]
      [] value.type = "f64" ->
            [ok |-> TRUE, data |-> IF value.x = "inf" THEN "null" ELSE value.x]
      [] OTHER -> [ok |-> FALSE]

\* the integers the JSON text data can be read as
Parsed(data) == {n \in 1..2 : data \in {ToString(n), ToString(n) \o ".0"}}

\* serde_json::from_slice as the type asked for: an i32 is read from an
\* integer, an f64 from an integer or a decimal, a map from an object; null
\* is none of them
from_slice(data, type) ==
    IF type = "i32"
    THEN IF \E n \in 1..2 : data = ToString(n)
         THEN [ok |-> TRUE, value |-> I32(CHOOSE n \in 1..2 : data = ToString(n))]
         ELSE [ok |-> FALSE]
    ELSE IF type = "f64" /\ Parsed(data) # {}
         THEN [ok |-> TRUE, value |-> F64(ToString(CHOOSE n \in Parsed(data) : TRUE) \o ".0")]
         ELSE [ok |-> FALSE]

\* CacheEntry::is_expired that lets the entry live through the instant expires_at
is_expired_late(entry, time) == time > entry.expires_at

\* CacheEntry::is_expired at time `time`
is_expired(entry, time) == time >= entry.expires_at

\* the keys stored, and HashMap::len
Stored(es) == {k \in Keys : es[k].some}
len(es) == Cardinality(Stored(es))

\* Cache::evict_lru that removes a most recently accessed entry
evict_mru(es) ==
    IF Stored(es) = {} THEN {es}
    ELSE {[es EXCEPT ![k] = None] :
            k \in {m \in Stored(es) :
                     \A j \in Stored(es) :
                        es[m].v.last_accessed >= es[j].v.last_accessed}}

\* Cache::evict_lru: the maps it can leave.  min_by_key takes the first of the
\* entries with the least last_accessed in the HashMap's iteration order,
\* which can be any of them.
evict_lru(es) ==
    IF Stored(es) = {} THEN {es}
    ELSE {[es EXCEPT ![k] = None] :
            k \in {m \in Stored(es) :
                     \A j \in Stored(es) :
                        es[m].v.last_accessed <= es[j].v.last_accessed}}

\* the read section of get for key and the type asked for: a hit with the
\* value read, an expired entry to remove, or None
lookup(es, key, type, time) ==
    IF ~es[key].some THEN [pc |-> "idle", result |-> None]
    ELSE IF is_expired(es[key].v, time) THEN [pc |-> "expired", result |-> None]
    ELSE IF from_slice(es[key].v.data, type).ok
    THEN [pc |-> "hit", result |-> Some(from_slice(es[key].v.data, type).value)]
    ELSE [pc |-> "idle", result |-> None]

CacheIdle == [pc |-> "idle", key |-> "a", pending |-> None]

\* Cache::with_config
Cache_with_config(t, m) ==
    /\ ttl = t
    /\ max_entries = m
    /\ entries = [k \in Keys |-> None]
    /\ cache_tasks = [task \in Tasks |-> CacheIdle]
    /\ cache_ops = 0
    /\ cache_ret = None
    /\ latest = [k \in Keys |-> None]

NoCache == Cache_with_config(2, 2)

OffCache == <<builderVars, netVars, streamVars, collect, retryVars, limiterVars, callVars>>

CacheCallStarts(t) == cache_tasks[t].pc = "idle"

CacheReturns(t, op, key, result) ==
    /\ cache_ret' = Some([op |-> op, key |-> key, result |-> result])
    /\ cache_tasks' = [cache_tasks EXCEPT ![t] = CacheIdle]

\* the keys that es no longer holds are forgotten
Forget(es) == [k \in Keys |-> IF es[k].some THEN latest[k] ELSE None]

\* Cache::insert: the value is serialized and the entry built; under the
\* write lock, taken at once, the least recently used entry is evicted if the
\* cache is at capacity and the key is new, and the entry is stored.  A value
\* that does not serialize makes insert return before anything is stored.
Cache_insert_in(t, ks, vs, ops) ==
    /\ CacheCallStarts(t)
    /\ cache_ops < ops
    /\ cache_ops' = cache_ops + 1
    /\ \E key \in ks, value \in vs :
         /\ IF to_vec(value).ok
            THEN LET entry == [data |-> to_vec(value).data,
                               expires_at |-> now + ttl,
                               last_accessed |-> now]
                     evicts == len(entries) >= max_entries /\ ~entries[key].some
                 IN  \E es \in (IF evicts THEN evict_lru(entries) ELSE {entries}) :
                       /\ entries' = [es EXCEPT ![key] = Some(entry)]
                       /\ latest' = [Forget(es) EXCEPT ![key] =
                                        Some([value |-> value, at |-> now])]
            ELSE /\ entries' = entries
                 /\ latest' = [latest EXCEPT ![key] = Some([value |-> value, at |-> now])]
         /\ CacheReturns(t, "insert", key, None)
    /\ UNCHANGED <<OffCache, now, ttl, max_entries>>

Cache_insert(t) == Cache_insert_in(t, FewKeys, Values, MaxCacheOps)

\* Cache::get::<type>(key) under the read lock
Cache_get_of(t, key, type) ==
    /\ CacheCallStarts(t)
    /\ cache_ops' = cache_ops + 1
    /\ LET r == lookup(entries, key, type, now)
       IN  IF r.pc = "idle"
           THEN CacheReturns(t, "get", key, r.result)
           ELSE /\ cache_tasks' = [cache_tasks EXCEPT ![t] =
                      [pc |-> r.pc, key |-> key, pending |-> r.result]]
                /\ UNCHANGED cache_ret
    /\ UNCHANGED <<OffCache, now, ttl, max_entries, entries, latest>>

Cache_get_in(t, ks, ts, ops) ==
    /\ cache_ops < ops
    /\ \E key \in ks, type \in ts : Cache_get_of(t, key, type)

Cache_get(t) == Cache_get_in(t, FewKeys, Types, MaxCacheOps)

\* Cache::get under the write lock: after a hit, last_accessed of the entry
\* now under the key is refreshed; after an expired entry, self.remove(key)
Cache_get_write(t) ==
    /\ cache_tasks[t].pc \in {"hit", "expired"}
    /\ LET key == cache_tasks[t].key
       IN  IF cache_tasks[t].pc = "hit"
           THEN /\ entries' = IF entries[key].some
                              THEN [entries EXCEPT ![key].v.last_accessed = now]
                              ELSE entries
                /\ UNCHANGED latest
                /\ CacheReturns(t, "get", key, cache_tasks[t].pending)
           ELSE /\ entries' = [entries EXCEPT ![key] = None]
                /\ latest' = [latest EXCEPT ![key] = None]
                /\ CacheReturns(t, "get", key, None)
    /\ UNCHANGED <<OffCache, now, ttl, max_entries, cache_ops>>

Cache_remove(t) ==
    /\ CacheCallStarts(t)
    /\ cache_ops < MaxCacheOps
    /\ cache_ops' = cache_ops + 1
    /\ \E key \in FewKeys :
         /\ entries' = [entries EXCEPT ![key] = None]
         /\ latest' = [latest EXCEPT ![key] = None]
         /\ CacheReturns(t, "remove", key, None)
    /\ UNCHANGED <<OffCache, now, ttl, max_entries>>

Cache_clear(t) ==
    /\ CacheCallStarts(t)
    /\ cache_ops < MaxCacheOps
    /\ cache_ops' = cache_ops + 1
    /\ entries' = [k \in Keys |-> None]
    /\ latest' = [k \in Keys |-> None]
    /\ CacheReturns(t, "clear", "a", None)
    /\ UNCHANGED <<OffCache, now, ttl, max_entries>>

Cache_cleanup_expired(t) ==
    /\ CacheCallStarts(t)
    /\ cache_ops < MaxCacheOps
    /\ cache_ops' = cache_ops + 1
    /\ LET es == [k \in Keys |->
                    IF entries[k].some /\ is_expired(entries[k].v, now)
                    THEN None ELSE entries[k]]
       IN  /\ entries' = es
           /\ latest' = Forget(es)
    /\ CacheReturns(t, "cleanup_expired", "a", None)
    /\ UNCHANGED <<OffCache, now, ttl, max_entries>>

Cache_contains_key_of(t, key) ==
    /\ CacheCallStarts(t)
    /\ cache_ops' = cache_ops + 1
    /\ CacheReturns(t, "contains_key", key,
                    Some(Bool(entries[key].some /\ ~is_expired(entries[key].v, now))))
    /\ UNCHANGED <<OffCache, now, ttl, max_entries, entries, latest>>

Cache_contains_key(t) ==
    /\ cache_ops < MaxCacheOps
    /\ \E key \in FewKeys : Cache_contains_key_of(t, key)

\* time passes
Tick ==
    /\ now < MaxTime
    /\ now' = now + 1
    /\ UNCHANGED <<OffLimiter, limiterVars>>

(***************************************************************************)
(* cache_key (src/src/cache.rs).                                           *)
(***************************************************************************)
\* the tags a key is made of, in the order of String: byte by byte
TagsInOrder == <<"1girl", "blue_eyes", "cat_ears", "rating:general">>
KeyTags == {TagsInOrder[i] : i \in 1..Len(TagsInOrder)}
KeyClients == {"danbooru", "safebooru"}
KeyLimits == {1, 10}
KeyPages == {0, 10}

\* a < b for two strings
StrLess(a, b) ==
    \E i, j \in 1..Len(TagsInOrder) : TagsInOrder[i] = a /\ TagsInOrder[j] = b /\ i < j

\* x put into the sorted sequence s, after the elements equal to it
RECURSIVE insert_sorted(_, _)
insert_sorted(s, x) ==
    IF s = <<>> THEN <<x>>
    ELSE IF StrLess(x, Head(s)) THEN <<x>> \o s
    ELSE <<Head(s)>> \o insert_sorted(Tail(s), x)

\* a sort that leaves the tags as they come
unsorted(ts) == ts

\* <[String]>::sort
RECURSIVE sort(_)
sort(ts) == IF ts = <<>> THEN <<>> ELSE insert_sorted(sort(SubSeq(ts, 1, Len(ts) - 1)), ts[Len(ts)])

cache_key(client, ts, l, p) ==
    LET tags_sorted == sort(ts)
    IN  client \o ":" \o join(tags_sorted, ",") \o ":limit=" \o ToString(l)
            \o ":page=" \o ToString(p)

\* download_posts is not called
NotDownloading == [pc |-> "none"]

NoCalls == applied = None /\ download = NotDownloading

\* a call of cache_key
cache_key_call ==
    /\ applied = None
    /\ \E client \in KeyClients, ts \in SeqsUpTo(KeyTags, MaxTagsLen),
          l \in KeyLimits, p \in KeyPages :
         applied' = Some([client |-> client, tags |-> ts, limit |-> l, page |-> p,
                          key |-> cache_key(client, ts, l, p)])
    /\ UNCHANGED <<builderVars, netVars, streamVars, collect, retryVars, now,
                   limiterVars, cacheVars, download>>

(***************************************************************************)
(* What a client makes of the backend's response (src/src/client/*.rs).    *)
(* A response is a failure to send, or a status and a body that may fail   *)
(* to arrive.  A body is known by the shape of its text, the posts written *)
(* in it, in the schema of the backend asked, and whether the text holds   *)
(* "Missing authentication".                                               *)
(***************************************************************************)
PostOf(i) == [id |-> i]
PostLists == {<<>>, <<PostOf(12345)>>, <<PostOf(12345), PostOf(12346)>>}
Ids == {12345, 99999}

Body(text, posts, marker) == [text |-> text, posts |-> posts, marker |-> marker]

Bodies ==
    {Body("[..]", ps, FALSE) : ps \in PostLists}
        \cup {Body("[..]", ps, TRUE) : ps \in PostLists \ {<<>>}}
        \cup {Body("{\"post\": [..]}", ps, FALSE) : ps \in PostLists}
        \cup {Body("{\"@attributes\": {..}}", <<>>, FALSE),
              Body("{\"id\": ..}", <<PostOf(12345)>>, FALSE),
              Body("{\"success\": false}", <<>>, FALSE),
              Body("not valid json", <<>>, FALSE),
              Body("", <<>>, FALSE),
              Body("Missing authentication. Go to api.rule34.xxx", <<>>, TRUE)}

Responses ==
    {[sent |-> FALSE]}
        \cup {[sent |-> TRUE, status |-> st, arrives |-> a, body |-> b] :
                st \in {200, 401, 404, 500}, a \in BOOLEAN, b \in Bodies}

OkPosts(ps) == [ok |-> TRUE, posts |-> ps]
OkPost(p) == [ok |-> TRUE, post |-> p]
ErrRequest(why) == [ok |-> FALSE, err |-> "Request", why |-> why]
ErrParse == [ok |-> FALSE, err |-> "Parse"]
ErrPostNotFound(id) == [ok |-> FALSE, err |-> "PostNotFound", id |-> id]
ErrUnauthorized(hint) == [ok |-> FALSE, err |-> "Unauthorized", hint |-> hint]

\* serde's Deserialize of a body as the schema asked for
schema_of(body) ==
    CASE body.text = "[..]" -> "Vec<Post>"
      [] body.text = "{\"post\": [..]}" -> "GelbooruResponse"
      [] body.text = "{\"id\": ..}" -> "DanbooruPost"
      [] OTHER -> "none"

\* reqwest's Response::json: the body is read, then decoded; both failures
\* are reqwest::Error, which From makes BooruError::Request
json(resp, schema) ==
    IF ~resp.arrives THEN ErrRequest("body")
    ELSE IF schema_of(resp.body) = schema THEN OkPosts(resp.body.posts)
    ELSE ErrRequest("decode")

\* serde_json::from_str::<Vec<Rule34Post>>: its failure is serde_json::Error,
\* which From makes BooruError::Parse
from_str(body) ==
    IF schema_of(body) = "Vec<Post>" THEN OkPosts(body.posts) ELSE ErrParse

\* .into_iter().next().ok_or(BooruError::PostNotFound(id))
first_or_not_found(r, id) ==
    IF ~r.ok THEN r
    ELSE IF r.posts = <<>> THEN ErrPostNotFound(id)
    ELSE OkPost(Head(r.posts))

GelbooruHint == "Gelbooru requires API credentials. Use set_credentials(api_key, user_id)"
Rule34Hint == "Rule34 requires API credentials. Use set_credentials(api_key, user_id)"

SafebooruClient_get_by_id(resp, id) ==
    IF ~resp.sent THEN ErrRequest("send")
    ELSE first_or_not_found(json(resp, "Vec<Post>"), id)

SafebooruClient_get(resp) ==
    IF ~resp.sent THEN ErrRequest("send") ELSE json(resp, "Vec<Post>")

GelbooruClient_get_by_id(resp, id) ==
    IF ~resp.sent THEN ErrRequest("send")
    ELSE IF resp.status = 401 THEN ErrUnauthorized(GelbooruHint)
    ELSE first_or_not_found(json(resp, "GelbooruResponse"), id)

GelbooruClient_get(resp) ==
    IF ~resp.sent THEN ErrRequest("send")
    ELSE IF resp.status = 401 THEN ErrUnauthorized(GelbooruHint)
    ELSE json(resp, "GelbooruResponse")

\* the test of the body for the marker that looks at the start of the body only
marker_first(body) == body.marker /\ schema_of(body) = "none"

\* text.contains("Missing authentication")
marker_found(body) == body.marker

Rule34Client_get_by_id(resp, id) ==
    IF ~resp.sent THEN ErrRequest("send")
    ELSE IF resp.status = 401 THEN ErrUnauthorized(Rule34Hint)
    ELSE IF ~resp.arrives THEN ErrRequest("body")
    ELSE IF marker_found(resp.body) THEN ErrUnauthorized(Rule34Hint)
    ELSE first_or_not_found(from_str(resp.body), id)

Rule34Client_get(resp) ==
    IF ~resp.sent THEN ErrRequest("send")
    ELSE IF resp.status = 401 THEN ErrUnauthorized(Rule34Hint)
    ELSE IF ~resp.arrives THEN ErrRequest("body")
    ELSE IF marker_found(resp.body) THEN ErrUnauthorized(Rule34Hint)
    ELSE IF resp.body.text = "" \/ (resp.body.text = "[..]" /\ resp.body.posts = <<>>)
    THEN OkPosts(<<>>)
    ELSE from_str(resp.body)

DanbooruClient_get_by_id(resp, id) ==
    IF ~resp.sent THEN ErrRequest("send")
    ELSE LET r == json(resp, "DanbooruPost")
         IN  IF r.ok THEN OkPost(r.posts[1]) ELSE r

DanbooruClient_get(resp) ==
    IF ~resp.sent THEN ErrRequest("send") ELSE json(resp, "Vec<Post>")

\* Client::get_by_id and Client::get of the backend t
get_by_id(t, resp, id) ==
    CASE t = "SafebooruClient" -> SafebooruClient_get_by_id(resp, id)
      [] t = "GelbooruClient" -> GelbooruClient_get_by_id(resp, id)
      [] t = "Rule34Client" -> Rule34Client_get_by_id(resp, id)
      [] t = "DanbooruClient" -> DanbooruClient_get_by_id(resp, id)

get(t, resp) ==
    CASE t = "SafebooruClient" -> SafebooruClient_get(resp)
      [] t = "GelbooruClient" -> GelbooruClient_get(resp)
      [] t = "Rule34Client" -> Rule34Client_get(resp)
      [] t = "DanbooruClient" -> DanbooruClient_get(resp)

OffCalls == <<builderVars, netVars, streamVars, collect, retryVars, now,
              limiterVars, cacheVars, download>>

\* the built client is asked for a post by id, and the backend responds
Client_get_by_id ==
    /\ bstate = "built"
    /\ applied = None
    /\ \E id \in Ids, resp \in Responses :
         applied' = Some([op |-> "get_by_id", id |-> id, response |-> resp,
                          result |-> get_by_id(T, resp, id)])
    /\ UNCHANGED OffCalls

\* the built client is asked for its page, and the backend responds
Client_get_response ==
    /\ bstate = "built"
    /\ applied = None
    /\ \E resp \in Responses :
         applied' = Some([op |-> "get", id |-> 0, response |-> resp,
                          result |-> get(T, resp)])
    /\ UNCHANGED OffCalls

(***************************************************************************)
(* Tag validation (src/src/validation.rs).  A tag is a sequence of pieces: *)
(* single characters, and words that stand for their characters.           *)
(***************************************************************************)
RECURSIVE Repeat(_, _)
Repeat(c, n) == IF n = 0 THEN "" ELSE c \o Repeat(c, n - 1)

LongWord == Repeat("a", 101)
Words == {"pixiv_id", "rating", LongWord}
Pieces == {"a", " ", "_", "!", ":"} \cup Words

\* str::len of a piece, and of a tag
PieceLen(p) ==
    CASE p = LongWord -> 101
      [] p = "pixiv_id" -> 8
      [] p = "rating" -> 6
      [] OTHER -> 1

RECURSIVE str_len(_)
str_len(t) == IF t = <<>> THEN 0 ELSE PieceLen(Head(t)) + str_len(Tail(t))

\* the tag as a String
to_string(t) == join(t, "")

COMMON_META_TAGS ==
    {"rating", "score", "order", "sort", "user", "height", "width", "id", "md5",
     "source", "parent", "pool"}

DANBOORU_ONLY_META_TAGS ==
    {"pixiv_id", "favcount", "gentags", "arttags", "chartags", "copytags",
     "approver", "commenter", "noter", "flagger"}

\* str::trim
RECURSIVE trim_start(_)
trim_start(t) == IF t # <<>> /\ Head(t) = " " THEN trim_start(Tail(t)) ELSE t

RECURSIVE trim_end(_)
trim_end(t) ==
    IF t # <<>> /\ t[Len(t)] = " " THEN trim_end(SubSeq(t, 1, Len(t) - 1)) ELSE t

trim(t) == trim_end(trim_start(t))

\* str::replace(' ', "_")
replace(t) == [i \in 1..Len(t) |-> IF t[i] = " " THEN "_" ELSE t[i]]

\* the characters of the tag that the filter of validate_tag keeps
RECURSIVE unusual(_)
unusual(t) ==
    IF t = <<>> THEN <<>>
    ELSE IF Head(t) \in {" ", "!"} THEN <<Head(t)>> \o unusual(Tail(t))
    ELSE unusual(Tail(t))

\* str::find(':')
find_colon(t) ==
    IF \E i \in 1..Len(t) : t[i] = ":"
    THEN Some(CHOOSE i \in 1..Len(t) : t[i] = ":" /\ \A j \in 1..(i - 1) : t[j] # ":")
    ELSE None

SpacesFound(o, g) == [w |-> "SpacesFound", original |-> o, suggested |-> g]
LeadingTrailingWhitespace == [w |-> "LeadingTrailingWhitespace"]
EmptyTag == [w |-> "EmptyTag"]
ConsecutiveUnderscores == [w |-> "ConsecutiveUnderscores"]
VeryLongTag(n) == [w |-> "VeryLongTag", length |-> n]
UnusualCharacters(cs) == [w |-> "UnusualCharacters", chars |-> cs]
UnsupportedMetaTag(p) == [w |-> "UnsupportedMetaTag", prefix |-> p]

\* Display of TagWarning
TagWarningToString(w) ==
    CASE w.w = "SpacesFound" ->
            "Tag contains spaces: '" \o w.original \o "'. Did you mean '"
                \o w.suggested \o "'?"
      [] w.w = "LeadingTrailingWhitespace" -> "Tag has leading or trailing whitespace"
      [] w.w = "EmptyTag" -> "Tag is empty"
      [] w.w = "ConsecutiveUnderscores" -> "Tag contains consecutive underscores"
      [] w.w = "VeryLongTag" ->
            "Tag is very long (" \o ToString(w.length) \o " chars), may cause issues"
      [] w.w = "UnusualCharacters" ->
            "Tag contains unusual characters: ["
                \o join([i \in 1..Len(w.chars) |-> "'" \o w.chars[i] \o "'"], ", ") \o "]"
      [] w.w = "UnsupportedMetaTag" ->
            "Meta tag '" \o w.prefix \o ":' may not be supported on all booru sites"

\* a sequence of one element if the test holds, of none if not
If(test, w) == IF test THEN <<w>> ELSE <<>>

validate_tag(t) ==
    IF t = <<>>
    THEN [original |-> t, normalized |-> None, warnings |-> <<EmptyTag>>,
          is_valid |-> FALSE]
    ELSE LET trimmed == trim(t)
             working_tag == trimmed
             spaces == \E i \in 1..Len(working_tag) : working_tag[i] = " "
             suggested == replace(working_tag)
             colon_pos == find_colon(working_tag)
             prefix == IF colon_pos.some
                       THEN to_string(SubSeq(working_tag, 1, colon_pos.v - 1))
                       ELSE ""
         IN  [original |-> t,
              normalized |-> IF spaces THEN Some(suggested)
                             ELSE IF trimmed # t THEN Some(trimmed)
                             ELSE None,
              warnings |->
                  If(trimmed # t, LeadingTrailingWhitespace)
                      \o If(spaces, SpacesFound(to_string(working_tag), to_string(suggested)))
                      \o If(\E i \in 1..(Len(working_tag) - 1) :
                               working_tag[i] = "_" /\ working_tag[i + 1] = "_",
                            ConsecutiveUnderscores)
                      \o If(str_len(working_tag) > 100, VeryLongTag(str_len(working_tag)))
                      \o If(unusual(working_tag) # <<>>,
                            UnusualCharacters(unusual(working_tag)))
                      \o If(colon_pos.some /\ prefix \notin COMMON_META_TAGS
                               /\ prefix \in DANBOORU_ONLY_META_TAGS,
                            UnsupportedMetaTag(prefix)),
              is_valid |-> TRUE]

OkTag(t) == [ok |-> TRUE, tag |-> t]
ErrInvalidTag(t, reason) ==
    [ok |-> FALSE, err |-> "InvalidTag", tag |-> to_string(t), reason |-> reason]

\* a strict validator that takes every warning for an error
validate_tag_strict_fatal(t) ==
    LET result == validate_tag(t)
    IN  IF result.warnings # <<>>
        THEN ErrInvalidTag(t, TagWarningToString(result.warnings[1]))
        ELSE OkTag(t)

validate_tag_strict(t) ==
    LET result == validate_tag(t)
    IN  IF ~result.is_valid
        THEN ErrInvalidTag(t, IF result.warnings # <<>>
                              THEN TagWarningToString(result.warnings[1])
                              ELSE "Unknown validation error")
        ELSE IF result.normalized.some THEN OkTag(result.normalized.v)
        ELSE OkTag(t)

\* a call of validate_tag_strict
validate_tag_strict_call ==
    /\ applied = None
    /\ \E t \in SeqsUpTo(Pieces, MaxTagPieces) :
         applied' = Some([tag |-> t, validation |-> validate_tag(t),
                          result |-> validate_tag_strict(t)])
    /\ UNCHANGED OffCalls

(***************************************************************************)
(* Downloader::download_posts (src/src/download.rs).  The call is a future *)
(* that spawns one task per post; the tasks run beside it and finish in    *)
(* any order.  Sizes of the files are left out.                            *)
(***************************************************************************)
\* a usize: a small one by its value, a big one (above what TLC can count,
\* and above tokio's Semaphore::MAX_PERMITS = usize::MAX >> 3) by the flag
Usize(n) == [big |-> FALSE, n |-> n]
usize_MAX == [big |-> TRUE, n |-> 0]

Concurrencies == {Usize(n) : n \in 0..MaxConcurrency} \cup {usize_MAX}

\* a post, with or without a file URL
DownloadPost(id, has_url) ==
    [id |-> id,
     file_url |-> IF has_url THEN Some([stem |-> "https://example.com/" \o ToString(id),
                                        ext |-> "png"])
                  ELSE None]

\* the slices of posts to download: post i has id i
PostSlices ==
    UNION {{[i \in 1..n |-> DownloadPost(i, has[i])] : has \in [1..n -> BOOLEAN]}
           : n \in 0..MaxDownloads}

\* DownloadOptions::default(): no filename template
generate_filename(post, u) == ToString(post.id) \o "." \o u.ext

OkDownload(path, skipped) == [ok |-> TRUE, path |-> path, skipped |-> skipped]
ErrDownload(err, what) == [ok |-> FALSE, err |-> err, what |-> what]

\* what a spawned task comes to: the value its future returns, or a JoinError
Output(r) == [joined |-> TRUE, v |-> r]
JoinError == [joined |-> FALSE]

\* the outputs of the task spawned for a post: what the filesystem and the
\* network do decides between them
TaskOutputs(post) ==
    IF ~post.file_url.some
    THEN {Output(ErrDownload("InvalidUrl",
                             "Post " \o ToString(post.id) \o " has no file URL"))}
    ELSE LET filename == generate_filename(post, post.file_url.v)
         IN  {Output(OkDownload(filename, TRUE)), Output(OkDownload(filename, FALSE)),
              Output(ErrDownload("Io", "")), Output(ErrDownload("Request", "")),
              JoinError}

Running == [state |-> "running"]
Finished(out) == [state |-> "finished", out |-> out]

\* handle.await.unwrap_or_else(..)
unwrap_or_else(out) ==
    IF out.joined THEN out.v ELSE ErrDownload("InvalidUrl", "Task panicked")

\* the handle the results loop awaits next
awaited(d) == Len(d.results) + 1

OffDownload == <<builderVars, netVars, streamVars, collect, retryVars, now,
                 limiterVars, cacheVars, applied>>

\* download_posts is called and creates its semaphore: Semaphore::new panics
\* above MAX_PERMITS
download_posts_Semaphore_new ==
    /\ download.pc = "called"
    /\ download' =
         IF download.concurrency.big
         THEN [download EXCEPT !.pc = "panicked"]
         ELSE [download EXCEPT !.pc = "running", !.permits = download.concurrency.n]
    /\ UNCHANGED OffDownload

\* one turn of the first loop: a permit is acquired and the post's task spawned
download_posts_spawn ==
    /\ download.pc = "running"
    /\ Len(download.handles) < Len(download.posts)
    /\ download.permits > 0
    /\ download' = [download EXCEPT !.permits = @ - 1,
                                    !.handles = Append(@, Running)]
    /\ UNCHANGED OffDownload

\* the task spawned for post i finishes, and its permit is dropped
spawned_task(i) ==
    /\ download.pc = "running"
    /\ i \in 1..Len(download.handles)
    /\ download.handles[i] = Running
    /\ \E out \in TaskOutputs(download.posts[i]) :
         download' = [download EXCEPT !.handles[i] = Finished(out),
                                      !.permits = @ + 1]
    /\ UNCHANGED OffDownload

\* one turn of the second loop: the next handle is awaited, its result pushed
download_posts_await ==
    /\ download.pc = "running"
    /\ Len(download.handles) = Len(download.posts)
    /\ Len(download.results) < Len(download.handles)
    /\ LET h == download.handles[awaited(download)]
       IN  /\ h.state = "finished"
           /\ download' = [download EXCEPT
                              !.results = Append(@, unwrap_or_else(h.out))]
    /\ UNCHANGED OffDownload

\* download_posts returns its results
download_posts_return ==
    /\ download.pc = "running"
    /\ Len(download.handles) = Len(download.posts)
    /\ Len(download.results) = Len(download.handles)
    /\ download' = [download EXCEPT !.pc = "returned"]
    /\ UNCHANGED OffDownload

(***************************************************************************)
(* The specifications.                                                     *)
(***************************************************************************)
\* no stream wraps the builder
NoStream ==
    /\ stream = "none"
    /\ current_page = U32(0)
    /\ exhausted = FALSE
    /\ max_pages = None
    /\ buffer = <<>>
    /\ buffer_index = 0
    /\ posts_yielded = 0
    /\ max_posts = None
    /\ ret = Uncalled
    /\ returned = <<>>
    /\ overflow_checks \in BOOLEAN

NoFetch ==
    /\ requests = <<>>
    /\ fetched = <<>>

\* the query builder, and the client built from it
InitBuilder ==
    BuilderInit /\ NoFetch /\ NoStream /\ NoCollect /\ NoRetry /\ NoLimiter /\ NoCache
        /\ NoCalls

NextBuilder ==
    \/ ClientBuilder_tag
    \/ ClientBuilder_tags
    \/ ClientBuilder_rating
    \/ ClientBuilder_random
    \/ ClientBuilder_sort
    \/ ClientBuilder_blacklist_tag
    \/ ClientBuilder_blacklist_tags
    \/ ClientBuilder_limit
    \/ ClientBuilder_page
    \/ ClientBuilder_build
    \/ Client_get

SpecBuilder == InitBuilder /\ [][NextBuilder]_vars

\* the query builder with every setter of the descriptor
NextDescriptor ==
    \/ NextBuilder
    \/ ClientBuilder_set_credentials
    \/ ClientBuilder_with_custom_url
    \/ ClientBuilder_default_url

SpecDescriptor == InitBuilder /\ [][NextDescriptor]_vars

\* PageStream::new / PostStream::new on a builder snapshot: into_page_stream,
\* into_post_stream
InitStream ==
    /\ T = "Rule34Client"
    /\ tags = <<"landscape">>
    /\ limit = 100
    /\ page \in StartPages
    /\ bstate = "building"
    /\ bresult = [ok |-> TRUE]
    /\ credentials = None
    /\ url = URL(T)
    /\ NoFetch
    /\ stream \in {"PageStream", "PostStream"}
    /\ current_page = page
    /\ exhausted = FALSE
    /\ max_pages = None
    /\ buffer = <<>>
    /\ buffer_index = 0
    /\ posts_yielded = 0
    /\ max_posts = None
    /\ ret = Uncalled
    /\ returned = <<>>
    /\ overflow_checks \in BOOLEAN
    /\ NoCollect
    /\ NoRetry
    /\ NoLimiter
    /\ NoCache
    /\ NoCalls

NextStream ==
    \/ PageStream_next
    \/ PageStream_max_pages
    \/ PostStream_next
    \/ PostStream_max_posts
    \/ PostStream_max_pages

SpecStream == InitStream /\ [][NextStream]_vars

\* a PostStream polled with next() and then handed to collect()
InitCollect == InitStream /\ stream = "PostStream"

NextCollect ==
    \/ PostStream_next
    \/ PostStream_max_posts
    \/ PostStream_max_pages
    \/ PostStream_collect

SpecCollect == InitCollect /\ [][NextCollect]_vars

\* collect() is a future its caller awaits: its loop goes on while it can
FairSpecCollect == SpecCollect /\ WF_vars(PostStream_collect)

\* no builder, client or stream is in use
NoClient ==
    /\ T = "SafebooruClient"
    /\ tags = <<>>
    /\ limit = 100
    /\ page = U32(0)
    /\ bstate = "dropped"
    /\ bresult = [ok |-> TRUE]
    /\ credentials = None
    /\ url = URL(T)
    /\ NoFetch
    /\ NoStream
    /\ overflow_checks = FALSE
    /\ NoCollect

\* the retry engine: a RetryConfig, delay_for_attempt asked of it, then
\* with_retry run on it
InitRetry ==
    NoClient /\ NoLimiter /\ NoCache /\ NoCalls /\ \E cfg \in Configs : RetryIdle(cfg)

NextRetry ==
    \/ RetryConfig_delay_for_attempt
    \/ with_retry

SpecRetry == InitRetry /\ [][NextRetry]_vars

\* with_retry is a future its caller awaits: a turn that can be taken is taken
FairSpecRetry == SpecRetry /\ WF_vars(with_retry)

\* a rate limiter shared by the tasks, and the clock
InitLimiter ==
    /\ NoClient
    /\ NoRetry
    /\ NoCache
    /\ NoCalls
    /\ now = 0
    /\ \E cap \in 0..MaxCapacity, interval \in RefillIntervals :
         RateLimiter_new(cap, interval)

NextLimiter ==
    \/ \E t \in Tasks : RateLimiter_try_acquire(t)
    \/ \E t \in Tasks : RateLimiter_available(t)
    \/ \E t \in Tasks : RateLimiter_acquire(t)
    \/ Tick

SpecLimiter == InitLimiter /\ [][NextLimiter]_vars

\* the longest refill interval, and a time by which every sleep of every call
\* the tasks can make is over
MaxInterval == CHOOSE i \in RefillIntervals : \A j \in RefillIntervals : j <= i
Horizon == MaxTime + (MaxCalls + 1) * MaxInterval

Sleeping(t) == tasks[t].pc = "sleeping"

\* tokio::time::sleep(wait_time).await of a task that has more to sleep: time
\* passes, however late it is
sleep_elapses ==
    /\ now >= MaxTime
    /\ now < Horizon
    /\ \E t \in Tasks : Sleeping(t) /\ ~slept_enough(tasks[t])
    /\ now' = now + 1
    /\ UNCHANGED <<OffLimiter, limiterVars>>

\* the turn of acquire's loop that follows a sleep
RateLimiter_acquire_woken(t) == Sleeping(t) /\ RateLimiter_acquire(t)

\* the tasks take tokens, by acquire and by try_acquire
NextLimiterLate ==
    \/ \E t \in Tasks : RateLimiter_try_acquire(t)
    \/ \E t \in Tasks : RateLimiter_acquire(t)
    \/ Tick
    \/ sleep_elapses

\* the clock runs, and the runtime polls a task whose sleep is over: the state
\* mutex is held inside the critical section only, and tokio's Mutex is fair
FairSpecLimiter ==
    /\ InitLimiter
    /\ [][NextLimiterLate]_vars
    /\ WF_vars(Tick \/ sleep_elapses)
    /\ \A t \in Tasks : WF_vars(RateLimiter_acquire_woken(t))

\* a cache shared by the tasks, and the clock
InitCache ==
    /\ NoClient
    /\ NoRetry
    /\ NoLimiter
    /\ NoCalls
    /\ \E t \in Ttls, m \in 0..MaxEntries : Cache_with_config(t, m)

NextCache ==
    \/ \E t \in Tasks : Cache_insert(t)
    \/ \E t \in Tasks : Cache_get(t)
    \/ \E t \in Tasks : Cache_get_write(t)
    \/ \E t \in Tasks : Cache_remove(t)
    \/ \E t \in Tasks : Cache_clear(t)
    \/ \E t \in Tasks : Cache_cleanup_expired(t)
    \/ \E t \in Tasks : Cache_contains_key(t)
    \/ Tick

SpecCache == InitCache /\ [][NextCache]_vars

\* a cache of integers on which the tasks only insert and get
Lru_insert(t) == Cache_insert_in(t, Keys, {I32(1)}, MaxLruOps)

Lru_get(t) == Cache_get_in(t, Keys, {"i32"}, MaxLruOps)

NextLru ==
    \/ \E t \in Tasks : Lru_insert(t)
    \/ \E t \in Tasks : Lru_get(t)
    \/ \E t \in Tasks : Cache_get_write(t)
    \/ Tick

SpecLru == InitCache /\ [][NextLru]_vars

\* cache_key called on a backend name, a tag list, a limit and a page
InitKey == NoClient /\ NoRetry /\ NoLimiter /\ NoCache /\ NoCalls

NextKey == cache_key_call

SpecKey == InitKey /\ [][NextKey]_vars

\* a client of one of the backends, built from a fresh builder, and the
\* response to its one request
InitClient ==
    /\ T \in Backends
    /\ tags = <<>>
    /\ limit = 100
    /\ page = U32(0)
    /\ bstate = "built"
    /\ bresult = [ok |-> TRUE]
    /\ credentials = None
    /\ url = URL(T)
    /\ NoFetch
    /\ NoStream
    /\ overflow_checks = FALSE
    /\ NoCollect
    /\ NoRetry
    /\ NoLimiter
    /\ NoCache
    /\ NoCalls

NextClient ==
    \/ Client_get_by_id
    \/ Client_get_response

SpecClient == InitClient /\ [][NextClient]_vars

\* validate_tag_strict called on a tag
NextValidation == validate_tag_strict_call

SpecValidation == InitKey /\ [][NextValidation]_vars

\* Downloader::download_posts called on a slice of posts and a concurrency
InitDownload ==
    /\ NoClient /\ NoRetry /\ NoLimiter /\ NoCache
    /\ applied = None
    /\ \E posts \in PostSlices, concurrency \in Concurrencies :
         download = [pc |-> "called", posts |-> posts, concurrency |-> concurrency,
                     permits |-> 0, handles |-> <<>>, results |-> <<>>]

NextDownload ==
    \/ download_posts_Semaphore_new
    \/ download_posts_spawn
    \/ \E i \in 1..MaxDownloads : spawned_task(i)
    \/ download_posts_await
    \/ download_posts_return

SpecDownload == InitDownload /\ [][NextDownload]_vars

\* the runtime polls the future of the call whenever it can go on, and every
\* spawned task runs to its end
FairSpecDownload ==
    /\ SpecDownload
    /\ WF_vars(download_posts_Semaphore_new)
    /\ WF_vars(download_posts_spawn)
    /\ \A i \in 1..MaxDownloads : WF_vars(spawned_task(i))
    /\ WF_vars(download_posts_await)
    /\ WF_vars(download_posts_return)

(***************************************************************************)
(* What the claims are stated over.                                        *)
(***************************************************************************)
Last(s) == s[Len(s)]

IsOk(r) == r.kind = "Ok"

\* how many of the returned values s are errors, Ok values, non-empty pages
NumErr(s) == Cardinality({i \in 1..Len(s) : s[i].kind = "Err"})
NumOk(s) == Cardinality({i \in 1..Len(s) : IsOk(s[i])})
NumNonEmptyPages(s) == Cardinality({i \in 1..Len(s) : IsOk(s[i]) /\ s[i].v # <<>>})

\* the posts a PostStream has yielded, oldest first
Yielded == [i \in 1..Len(returned) |-> IF IsOk(returned[i]) THEN returned[i].v ELSE <<0, 0>>]

\* a step that fetched, and what the backend answered
Fetched == fetched' # fetched
FetchedError == Fetched /\ ~Last(fetched').ok
FetchedEmpty == Fetched /\ Last(fetched').ok /\ Last(fetched').posts = <<>>

StreamNext == PageStream_next \/ PostStream_next

(***************************************************************************)
(* C1: on a backend with MAX_TAGS = Some(m), tag, and tags with at least   *)
(* one tag, on a builder holding m tags returns TagLimitExceeded with      *)
(* max = m and actual = m + 1; the builder still holds its m tags when the *)
(* call returns, and no request is sent.                                   *)
(***************************************************************************)
AddsTag ==
    \/ ClientBuilder_tag
    \/ \E iter \in SeqsUpTo(UserTags, MaxIterLen) \ {<<>>} : ClientBuilder_tags_of(iter)

C1_TagLimitExceeded ==
    [][(MAX_TAGS(T).some /\ Len(tags) = MAX_TAGS(T).v /\ AddsTag)
         => /\ bresult' = [ok |-> FALSE,
                           err |-> [kind |-> "TagLimitExceeded", client |-> T,
                                    max |-> MAX_TAGS(T).v,
                                    actual |-> MAX_TAGS(T).v + 1]]
            /\ tags' = tags
            /\ requests' = requests]_vars

C1_Witness ==
    /\ MAX_TAGS(T).some
    /\ Len(tags) = MAX_TAGS(T).v
    /\ bstate = "dropped"
    /\ ~bresult.ok
    /\ bresult.err.actual = MAX_TAGS(T).v + 1

(***************************************************************************)
(* C2: on a backend with MAX_TAGS = Some(m) the builder never holds more   *)
(* than m tags, whatever operations ran, so no client is built with more.  *)
(***************************************************************************)
C2_TagCountWithinLimit == MAX_TAGS(T).some => Len(tags) <= MAX_TAGS(T).v

(***************************************************************************)
(* C3: a PageStream next() that gets an empty page or an error, or finds   *)
(* the max pages limit reached, sets exhausted; from then on exhausted     *)
(* stays set, no fetch is issued and every next() returns None.            *)
(***************************************************************************)
C3_ExhaustionIsTerminal ==
    [][/\ (PageStream_next /\ (FetchedEmpty \/ FetchedError
                                \/ limit_reached(current_page, page, max_pages)))
            => exhausted'
       /\ exhausted => (exhausted' /\ requests' = requests)
       /\ (exhausted /\ PageStream_next) => ret' = RetNone]_vars

C3_Witness ==
    /\ stream = "PageStream"
    /\ exhausted
    /\ ret = RetNone
    /\ fetched # <<>>
    /\ Last(fetched).ok

(***************************************************************************)
(* C4: the next() whose fetch fails returns that error; once an error has  *)
(* been returned no fetch is issued and every next() returns None, so a    *)
(* stream returns at most one error.                                       *)
(***************************************************************************)
ErrorSurfaced == NumErr(returned) > 0

C4_ErrorSurfacedOnce ==
    [][/\ (StreamNext /\ FetchedError) => ret' = RetErr(Last(fetched').err)
       /\ ErrorSurfaced => requests' = requests
       /\ (ErrorSurfaced /\ StreamNext) => ret' = RetNone
       /\ NumErr(returned') <= 1]_vars

C4_Witness ==
    /\ stream = "PostStream"
    /\ ErrorSurfaced
    /\ Len(returned) > 1
    /\ ret = RetNone

(***************************************************************************)
(* C5: with max_pages = n, once n fetches have been issued or n non-empty  *)
(* pages returned, a PageStream issues no fetch and next() returns None,   *)
(* whatever the start page.                                                *)
(***************************************************************************)
C5_AtMostMaxPages ==
    [][(/\ stream = "PageStream"
        /\ max_pages.some
        /\ max_pages' = max_pages
        /\ \/ Len(requests) >= max_pages.v
           \/ NumNonEmptyPages(returned) >= max_pages.v)
         => /\ requests' = requests
            /\ PageStream_next => ret' = RetNone]_vars

(***************************************************************************)
(* C6, as stated: PageStream::next returns None when its fetch yields an   *)
(* empty page, or when the max pages limit is reached.                     *)
(***************************************************************************)
C6_NoneOnEmptyPage ==
    [][(PageStream_next
         /\ (FetchedEmpty \/ limit_reached(current_page, page, max_pages)))
         => ret' = RetNone]_vars

(***************************************************************************)
(* C6, amended: PageStream::next returns None exactly when the stream is   *)
(* already exhausted or the max pages limit is reached (current_page minus *)
(* the start page, saturating, is at least max_pages); the call whose      *)
(* fetch yields an empty page returns that empty page and sets exhausted.  *)
(***************************************************************************)
C6_NoneWhenExhaustedOrLimit ==
    [][PageStream_next
         => /\ ret'.kind = "None"
                <=> (exhausted \/ limit_reached(current_page, page, max_pages))
            /\ FetchedEmpty => (ret' = RetOk(<<>>) /\ exhausted')]_vars

C6_Witness ==
    /\ stream = "PageStream"
    /\ exhausted
    /\ ret = RetOk(<<>>)

(***************************************************************************)
(* C7, as stated: whenever max_posts = M is set, posts_yielded <= M, and   *)
(* posts_yielded is the number of next() calls that returned a post.       *)
(***************************************************************************)
C7_YieldedWithinCap ==
    stream = "PostStream"
        => /\ max_posts.some => posts_yielded <= max_posts.v
           /\ posts_yielded = NumOk(returned)

(***************************************************************************)
(* C7, amended: while max_posts = M stays as set, posts_yielded <= M is    *)
(* kept by every step (so it holds throughout when M is set before the     *)
(* first next()), and posts_yielded is the number of next() calls that     *)
(* returned a post (a count below 2^32: posts_yielded is a u32, kept here  *)
(* as a plain number because no behaviour within the bounds comes near).   *)
(***************************************************************************)
C7_CapKeptOnceWithin ==
    [][stream = "PostStream"
         => /\ (max_posts.some /\ max_posts' = max_posts
                    /\ posts_yielded <= max_posts.v)
                => posts_yielded' <= max_posts.v
            /\ posts_yielded' = NumOk(returned')]_vars

C7_Witness ==
    /\ stream = "PostStream"
    /\ max_posts.some
    /\ posts_yielded = max_posts.v
    /\ posts_yielded > 1
    /\ ret = RetNone
    /\ Len(buffer) > 0

(***************************************************************************)
(* C8: with max_posts = M and every fetched page holding P posts, a        *)
(* PostStream that has yielded M posts has issued ceil(M / P) fetches, and *)
(* at the cap next() returns None without fetching.                        *)
(***************************************************************************)
CeilDiv(a, b) == (a + b - 1) \div b

PagesOfSize(P) ==
    \A i \in 1..Len(fetched) : fetched[i].ok /\ Len(fetched[i].posts) = P

C8_FetchesForCap ==
    [][\A P \in 1..MaxPageLen :
         (/\ stream = "PostStream"
          /\ max_posts.some
          /\ posts_yielded = max_posts.v
          /\ PagesOfSize(P))
            => /\ Len(requests) = CeilDiv(max_posts.v, P)
               /\ PostStream_next => (ret' = RetNone /\ requests' = requests)]_vars

(***************************************************************************)
(* C9: a PostStream yields posts in the backend's order: the posts of one  *)
(* page in their order in the page, and pages in the order fetched.        *)
(***************************************************************************)
C9_BackendOrder ==
    stream = "PostStream"
        => \A i, j \in 1..Len(returned) :
             (i < j /\ IsOk(returned[i]) /\ IsOk(returned[j]))
                => \/ Yielded[i][1] < Yielded[j][1]
                   \/ /\ Yielded[i][1] = Yielded[j][1]
                      /\ Yielded[i][2] < Yielded[j][2]

(***************************************************************************)
(* C10: a PostStream fetches a page only when every post of the pages      *)
(* fetched before has been yielded, and yields no post twice.              *)
(***************************************************************************)
YieldedPosts == {returned[i].v : i \in {k \in 1..Len(returned) : IsOk(returned[k])}}

C10_DrainedBeforeFetch ==
    stream = "PostStream"
        => /\ \A k \in 1..(Len(fetched) - 1) :
                fetched[k].ok
                    => \A i \in 1..Len(fetched[k].posts) :
                         fetched[k].posts[i] \in YieldedPosts
           /\ Cardinality(YieldedPosts) = NumOk(returned)

(***************************************************************************)
(* C11: when PostStream::collect returns, it returns Err with the first    *)
(* error one of its next() calls met, and none of the posts gathered       *)
(* before it; when none of them failed it returns Ok with exactly the      *)
(* posts those next() calls yielded, in the same order, at most max_posts  *)
(* of them.                                                                *)
(***************************************************************************)
\* the Some(..) values the next() calls made by collect returned, oldest first
CollectCalls == SubSeq(returned, collect.since + 1, Len(returned))

C11_CollectResult ==
    collect.pc = "returned"
        => /\ collect.all_posts = <<>>
           /\ IF NumErr(CollectCalls) > 0
              THEN /\ \A i \in 1..(Len(CollectCalls) - 1) : IsOk(CollectCalls[i])
                   /\ ~Last(fetched).ok
                   /\ collect.result = RetErr(Last(fetched).err)
              ELSE /\ collect.result
                        = RetOk([i \in 1..Len(CollectCalls) |-> CollectCalls[i].v])
                   /\ max_posts.some => Len(collect.result.v) <= max_posts.v
                   /\ ret = RetNone

C11_Witness ==
    /\ collect.pc = "returned"
    /\ collect.result.kind = "Err"
    /\ Len(CollectCalls) > 2
    /\ collect.since > 0

(***************************************************************************)
(* C12: delay_for_attempt(0) = 0 and, for n >= 1, delay_for_attempt(n) =   *)
(* min(initial_delay * backoff_factor^(n-1), max_delay): 0, 100, 200,      *)
(* 400, ... ms for 100 ms, factor 2 and 5000 ms; no delay exceeds          *)
(* max_delay.                                                              *)
(***************************************************************************)
C12_DelayFormula ==
    delay.some
        => LET n == delay.v.attempt
               d == delay.v.delay
           IN  IF n = 0 THEN d = 0
               ELSE LET pw == powi(config.backoff_factor, n - 1)
                    IN  /\ IF config.initial_delay * pw[1] <= config.max_delay * pw[2]
                           THEN d * pw[2] = config.initial_delay * pw[1]
                           ELSE d = config.max_delay
                        /\ d <= config.max_delay

(***************************************************************************)
(* C13: with_retry invokes the operation at most max_retries + 1 times:    *)
(* exactly max_retries + 1 times when every attempt fails with a retryable *)
(* error (it returns a retryable error only then), exactly once when       *)
(* max_retries = 0, and it then returns the last error; a call whose       *)
(* operation always completes returns.                                     *)
(***************************************************************************)
C13_Bounded ==
    /\ invoked <= config.max_retries + 1
    /\ retry.pc = "returned"
         => /\ (retry.result.kind = "Err" /\ is_retryable(retry.result.err))
                 => invoked = config.max_retries + 1
            /\ config.max_retries = 0 => invoked = 1
            /\ retry.result.kind = "Err" => retry.result = RetErr(last_error.v)

C13_AtMostMaxRetriesPlusOne ==
    []C13_Bounded /\ (retry.pc = "loop" ~> retry.pc = "returned")

C13_Witness ==
    /\ retry.pc = "returned"
    /\ config.max_retries > 1
    /\ invoked = config.max_retries + 1
    /\ retry.result.kind = "Err"
    /\ is_retryable(retry.result.err)

(***************************************************************************)
(* C14: an attempt that fails with Parse, PostNotFound, Unauthorized,      *)
(* TagLimitExceeded, InvalidTag, InvalidUrl, EmptyResponse or Io makes     *)
(* with_retry return that error at once, with no sleep and no further      *)
(* invocation, whatever retries remain; a timeout or connect failure, an   *)
(* HTTP 5xx and RateLimited are retried while retries remain, after one    *)
(* sleep; and whether a failure is retried while retries remain depends    *)
(* only on the error.                                                      *)
(***************************************************************************)
NeverRetried ==
    {"Parse", "PostNotFound", "Unauthorized", "TagLimitExceeded", "InvalidTag",
     "InvalidUrl", "EmptyResponse", "Io"}

Retried(e) ==
    \/ e.kind = "RateLimited"
    \/ /\ e.kind = "Request"
       /\ \/ e.is_timeout
          \/ e.is_connect
          \/ e.status.some /\ e.status.v \in 500..599

\* a step of with_retry whose invocation of the operation failed
AttemptFailed == invoked' = invoked + 1 /\ retry'.result.kind # "Ok"

C14_NonRetryableReturnedAtOnce ==
    [][/\ AttemptFailed
            => LET e == last_error'.v
               IN  /\ e.kind \in NeverRetried
                        => (retry' = [pc |-> "returned", result |-> RetErr(e)]
                              /\ slept' = slept)
                   /\ (Retried(e) /\ attempt < config.max_retries)
                        => (retry'.pc = "loop" /\ Len(slept') = Len(slept) + 1)
                   /\ attempt < config.max_retries
                        => (retry'.pc = "loop" <=> is_retryable(e))
       /\ retry.pc = "returned" => (invoked' = invoked /\ slept' = slept)]_vars

C14_Witness ==
    /\ retry.pc = "returned"
    /\ retry.result.kind = "Err"
    /\ retry.result.err.kind = "Io"
    /\ invoked > 1
    /\ attempt < config.max_retries
    /\ Len(slept) = invoked - 1

(***************************************************************************)
(* C15: in every reachable state of a RateLimiter, under any interleaving  *)
(* of acquire, try_acquire and available by the tasks and any passage of   *)
(* time, 0 <= tokens <= capacity.                                          *)
(***************************************************************************)
C15_TokensWithinCapacity ==
    0 <= tokens /\ tokens <= capacity * one_token(refill_interval)

C15_Witness ==
    /\ 0 < tokens
    /\ tokens < one_token(refill_interval)
    /\ \E t \in Tasks : tasks[t].pc = "sleeping"
    /\ \E i \in 1..Len(calls) : calls[i].op = "acquire"
    /\ \E i \in 1..Len(calls) : calls[i].op = "try_acquire" /\ ~calls[i].result

(***************************************************************************)
(* C16: from a full bucket of capacity N, with no time elapsing, exactly   *)
(* the first N try_acquire calls return true and the (N+1)-th and later    *)
(* ones false, and available() answers N less the number of successful     *)
(* acquisitions so far.                                                    *)
(***************************************************************************)
\* how many of the first n calls were try_acquire calls
TriesBefore(n) == Cardinality({i \in 1..n : calls[i].op = "try_acquire"})

C16_FirstNSucceed ==
    (now = 0 /\ \A i \in 1..Len(calls) : calls[i].op # "acquire")
        => \A i \in 1..Len(calls) :
             /\ calls[i].op = "try_acquire"
                  => (calls[i].result <=> TriesBefore(i - 1) < capacity)
             /\ calls[i].op = "available"
                  => calls[i].result = capacity - Min(TriesBefore(i - 1), capacity)

C16_Witness ==
    /\ now = 0
    /\ capacity > 1
    /\ Len(calls) > capacity + 1
    /\ \A i \in 1..(capacity + 1) : calls[i].op = "try_acquire"
    /\ calls[capacity].result
    /\ ~calls[capacity + 1].result
    /\ Last(calls).op = "available"

(***************************************************************************)
(* C17: time passing changes neither tokens nor last_update; each call     *)
(* recomputes tokens as min(tokens + elapsed * capacity / refill_interval, *)
(* capacity), elapsed counted from last_update, before it takes a token;   *)
(* so available(), called a full refill interval or more after any call    *)
(* with no token taken in between, answers N, however long the wait.       *)
(***************************************************************************)
Acquisition(c) == c.op = "acquire" \/ (c.op = "try_acquire" /\ c.result)

C17_Restored ==
    \A i, j \in 1..Len(calls) :
        (/\ i < j
         /\ calls[j].op = "available"
         /\ calls[j].at >= calls[i].at + refill_interval
         /\ \A k \in (i + 1)..(j - 1) : ~Acquisition(calls[k]))
            => calls[j].result = capacity

C17_LazyRefill ==
    []C17_Restored
    /\ [][/\ now' # now => (tokens' = tokens /\ last_update' = last_update)
          /\ now' = now
               => LET refilled == Min(tokens + (now - last_update) * capacity,
                                      capacity * refill_interval)
                  IN  /\ last_update' = now
                      /\ tokens' \in {refilled, refilled - refill_interval}
                      /\ (calls' # calls /\ Last(calls').op = "available")
                           => Last(calls').result = refilled \div refill_interval
          /\ tokens' <= capacity * refill_interval]_vars

C17_Witness ==
    \E i, j \in 1..Len(calls) :
        /\ i < j
        /\ calls[i].op = "available"
        /\ calls[i].result = 0
        /\ calls[j].op = "available"
        /\ calls[j].at > calls[i].at + refill_interval
        /\ calls[j].result = capacity
        /\ capacity > 1

(***************************************************************************)
(* C18: a turn of acquire returns exactly when, after the refill, at least *)
(* one token is available, and it takes exactly one token in that same     *)
(* critical section, so a call that finds a token returns without          *)
(* sleeping; otherwise it takes nothing and sleeps for                     *)
(* (1 - tokens) / (capacity / refill_interval) before it checks again.     *)
(***************************************************************************)
C18_AcquireTakesOneToken ==
    [][\A t \in Tasks :
         /\ RateLimiter_acquire(t)
              => LET refilled == Min(tokens + (now - last_update) * capacity,
                                     capacity * refill_interval)
                     returns == calls' # calls
                 IN  /\ returns <=> refilled >= refill_interval
                     /\ returns => (tokens' = refilled - refill_interval
                                      /\ tasks'[t].pc = "idle")
                     /\ ~returns
                          => /\ tokens' = refilled
                             /\ tasks'[t].pc = "sleeping"
                             /\ tasks'[t].since = now
                             /\ tasks'[t].wait_time[1] * capacity
                                  = (refill_interval - refilled) * tasks'[t].wait_time[2]
         /\ (tasks[t].pc = "sleeping" /\ ~slept_enough(tasks[t]))
              => tasks'[t] = tasks[t]]_vars

(***************************************************************************)
(* C19, as stated: for every key k and value v, a get(k) that follows      *)
(* insert(k, v), the last insert made for k, finds Some(v) as long as the  *)
(* TTL has not elapsed and k has not been evicted, removed or cleared; get *)
(* returns what it found.                                                  *)
(***************************************************************************)
\* what the read section of a get by task t, taken in this step, found
LookedUp(t) ==
    IF cache_tasks'[t].pc = "idle" THEN cache_ret'.v.result ELSE cache_tasks'[t].pending

\* a hit returns the value its read section found
HitReturned(t) ==
    (Cache_get_write(t) /\ cache_tasks[t].pc = "hit")
        => cache_ret'.v = [op |-> "get", key |-> cache_tasks[t].key,
                           result |-> cache_tasks[t].pending]

\* the TTL of the last insert made for k has not elapsed
Fresh(k) == latest[k].some /\ now < latest[k].v.at + ttl

C19_RoundTrip ==
    [][\A t \in Tasks, k \in Keys :
         /\ (Fresh(k) /\ Cache_get_of(t, k, latest[k].v.value.type))
              => LookedUp(t) = Some(latest[k].v.value)
         /\ HitReturned(t)]_vars

(***************************************************************************)
(* What the code does keep of the round trip: it holds for every value     *)
(* that serde_json writes as JSON from which the type asked for reads the  *)
(* value back.  A value that serde_json fails to write is not stored:      *)
(* insert returns leaving the cache as it was, and get finds what was      *)
(* there before.  A value whose JSON does not read back (an infinite       *)
(* float, written as null) is stored and get finds None.                   *)
(***************************************************************************)
RoundTrips(v) ==
    to_vec(v).ok /\ from_slice(to_vec(v).data, v.type) = [ok |-> TRUE, value |-> v]

RoundTripOfJson ==
    [][\A t \in Tasks, k \in Keys :
         /\ (Fresh(k) /\ Cache_get_of(t, k, latest[k].v.value.type))
              => LET v == latest[k].v.value
                 IN  IF RoundTrips(v) THEN LookedUp(t) = Some(v)
                     ELSE IF to_vec(v).ok THEN LookedUp(t) = None
                     ELSE LookedUp(t) # Some(v)
         /\ (Cache_insert(t) /\ latest'[k] # latest[k] /\ latest'[k].some
                /\ ~to_vec(latest'[k].v.value).ok)
              => entries' = entries
         /\ HitReturned(t)]_vars

RoundTripSeen ==
    /\ cache_ret.some
    /\ cache_ret.v.op = "get"
    /\ latest[cache_ret.v.key].some
    /\ cache_ret.v.result = Some(latest[cache_ret.v.key].v.value)
    /\ now > latest[cache_ret.v.key].v.at
    /\ cache_ops > 2
    /\ \A t \in Tasks : cache_tasks[t].pc = "idle"

(***************************************************************************)
(* C20: an entry inserted at time t0 under TTL t expires at t0 + t, and    *)
(* nothing but a new insert for its key moves that instant; a get that     *)
(* looks the key up at now >= t0 + t finds None and a contains_key at such *)
(* a time answers false; a get hit refreshes last_accessed and leaves      *)
(* expires_at as it was.                                                   *)
(***************************************************************************)
C20_NeverReturnedOnceExpired ==
    [][\A t \in Tasks, k \in Keys :
         /\ (Cache_insert(t) /\ entries'[k].some /\ entries'[k] # entries[k])
              => entries'[k].v.expires_at = now + ttl
         /\ (entries[k].some /\ now >= entries[k].v.expires_at)
              => /\ \A type \in Types :
                      Cache_get_of(t, k, type)
                          => (LookedUp(t) = None /\ cache_tasks'[t].pc = "expired")
                 /\ Cache_contains_key_of(t, k) => cache_ret'.v.result = Some(Bool(FALSE))
         /\ (Cache_get_write(t) /\ cache_tasks[t].pc = "expired")
              => cache_ret'.v.result = None
         /\ (entries[k].some /\ entries'[k].some
                /\ entries'[k].v.expires_at # entries[k].v.expires_at)
              => \E u \in Tasks : Cache_insert(u)
         /\ (Cache_get_write(t) /\ cache_tasks[t].pc = "hit"
                /\ cache_tasks[t].key = k /\ entries[k].some)
              => entries'[k] = Some([entries[k].v EXCEPT !.last_accessed = now])]_vars

C20_Witness ==
    /\ cache_ret.some
    /\ cache_ret.v.op = "contains_key"
    /\ cache_ret.v.result = Some(Bool(FALSE))
    /\ entries[cache_ret.v.key].some
    /\ ttl > 0
    /\ now >= entries[cache_ret.v.key].v.expires_at
    /\ entries[cache_ret.v.key].v.last_accessed > entries[cache_ret.v.key].v.expires_at - ttl

(***************************************************************************)
(* C21: in every state the calls on a Cache can reach, whatever their      *)
(* order and interleaving, the number of entries stored is at most         *)
(* max_entries, for every max_entries the Cache is configured with.        *)
(***************************************************************************)
C21_LenWithinMaxEntries == len(entries) <= max_entries

\* what the code keeps of it: the bound holds when max_entries is at least 1
LenWithinMaxEntriesFromOne == max_entries >= 1 => len(entries) <= max_entries

(***************************************************************************)
(* C22, as stated: an insert of a new key into a cache that holds          *)
(* max_entries entries evicts exactly one entry, one whose last_accessed   *)
(* is the oldest; an insert of a key already present evicts nothing; the   *)
(* entry inserted has last_accessed = now, and a get hit sets              *)
(* last_accessed of the entry under its key to now.                        *)
(***************************************************************************)
\* the keys this step takes out of the cache
Evicted == Stored(entries) \ Stored(entries')

\* this step takes exactly one entry out, one of the least recently accessed
EvictsOneOldest ==
    \E e \in Stored(entries) :
       /\ Evicted = {e}
       /\ \A j \in Stored(entries) : entries[e].v.last_accessed <= entries[j].v.last_accessed

\* the steps of insert and get that write last_accessed write the clock
StampsNow(t, k) ==
    /\ Lru_insert(t) /\ cache_ret'.v.key = k
         => (entries'[k].some /\ entries'[k].v.last_accessed = now)
    /\ (Cache_get_write(t) /\ cache_tasks[t].pc = "hit"
           /\ cache_tasks[t].key = k /\ entries[k].some)
         => (entries'[k].some /\ entries'[k].v.last_accessed = now)

Occurrences(s, x) == Cardinality({i \in 1..Len(s) : s[i] = x})

\* the sequences that hold the elements of s, each as many times
Rearrangements(s) ==
    {q \in [1..Len(s) -> {s[i] : i \in 1..Len(s)}] :
        \A x \in KeyTags : Occurrences(q, x) = Occurrences(s, x)}

\* no element of s is greater than the one after it
Ascending(s) == \A i \in 1..(Len(s) - 1) : ~StrLess(s[i + 1], s[i])

C23_KeyInsensitiveToTagOrder ==
    applied.some =>
        LET a == applied.v
        IN  /\ \A q \in Rearrangements(a.tags) :
                   cache_key(a.client, q, a.limit, a.page) = a.key
            /\ \E q \in Rearrangements(a.tags) :
                   /\ Ascending(q)
                   /\ a.key = a.client \o ":" \o join(q, ",") \o ":limit="
                                  \o ToString(a.limit) \o ":page=" \o ToString(a.page)
            /\ \A l \in KeyLimits, p \in KeyPages :
                   <<l, p>> # <<a.limit, a.page>>
                       => cache_key(a.client, a.tags, l, p) # a.key

C23_Witness ==
    /\ applied.some
    /\ applied.v.tags = <<"cat_ears", "blue_eyes", "cat_ears">>
    /\ applied.v.key = "danbooru:blue_eyes,cat_ears,cat_ears:limit=10:page=0"

(***************************************************************************)
(* C24, as stated: on Safebooru, Gelbooru and Rule34, get_by_id(id)        *)
(* returns the first post of the list the backend answered when the list   *)
(* is not empty, and Err(PostNotFound(id)), with the id asked for, when    *)
(* the array or the envelope is empty; a post it returns is a post of the  *)
(* response.                                                               *)
(***************************************************************************)
ListBackends == {"SafebooruClient", "GelbooruClient", "Rule34Client"}

\* the schema the backend t answers the call op in
ExpectedSchema(t, op) ==
    IF t = "GelbooruClient" THEN "GelbooruResponse"
    ELSE IF t = "DanbooruClient" /\ op = "get_by_id" THEN "DanbooruPost"
    ELSE "Vec<Post>"

\* the response arrived whole with status 200
Arrived(resp) == resp.sent /\ resp.arrives /\ resp.status = 200

\* the response is the backend's answer to the call: a list of posts
Answered(t, op, resp) == Arrived(resp) /\ schema_of(resp.body) = ExpectedSchema(t, op)

FirstOrNotFound(a) ==
    IF a.response.body.posts # <<>>
    THEN a.result = OkPost(Head(a.response.body.posts))
    ELSE a.result = ErrPostNotFound(a.id)

\* a post returned is the first post of the response
NotFabricated(a) ==
    a.result.ok
        => /\ a.response.sent
           /\ a.response.body.posts # <<>>
           /\ a.result.post = Head(a.response.body.posts)

C24_GetByIdFirstOrNotFound ==
    (applied.some /\ applied.v.op = "get_by_id" /\ T \in ListBackends)
        => /\ Answered(T, "get_by_id", applied.v.response) => FirstOrNotFound(applied.v)
           /\ NotFabricated(applied.v)

\* what the code keeps of it: the same for every answer but those of Rule34
\* that hold the text "Missing authentication", which are taken for a refusal
GetByIdFirstOrNotFoundUnlessMarked ==
    (applied.some /\ applied.v.op = "get_by_id" /\ T \in ListBackends)
        => /\ Answered(T, "get_by_id", applied.v.response)
                => IF T = "Rule34Client" /\ applied.v.response.body.marker
                   THEN applied.v.result = ErrUnauthorized(Rule34Hint)
                   ELSE FirstOrNotFound(applied.v)
           /\ NotFabricated(applied.v)

(***************************************************************************)
(* C25: on Gelbooru and Rule34, get() and get_by_id() answer a response of *)
(* status 401, and on Rule34 a response of status 200 whose body holds     *)
(* "Missing authentication", with the same error, Unauthorized, and with   *)
(* no post.                                                                *)
(***************************************************************************)
\* the backend refuses the request for want of credentials
Refused(t, resp) ==
    /\ resp.sent
    /\ \/ t \in {"GelbooruClient", "Rule34Client"} /\ resp.status = 401
       \/ t = "Rule34Client" /\ Arrived(resp) /\ resp.body.marker

C25_UnauthorizedNormalized ==
    (applied.some /\ Refused(T, applied.v.response))
        => /\ ~applied.v.result.ok
           /\ applied.v.result =
                 ErrUnauthorized(IF T = "Rule34Client" THEN Rule34Hint ELSE GelbooruHint)

C25_Witness ==
    /\ applied.some
    /\ T = "Rule34Client"
    /\ applied.v.op = "get"
    /\ applied.v.response.sent
    /\ applied.v.response.status = 200
    /\ applied.v.response.body.marker
    /\ applied.v.response.body.posts # <<>>
    /\ applied.v.result.err = "Unauthorized"

(***************************************************************************)
(* C26: on every backend, get() and get_by_id() answer a response of       *)
(* status 200 whose body is not JSON, or is JSON of another schema than    *)
(* the one expected, with Err(Parse), and a request that cannot be sent or *)
(* a body that does not arrive with Err(Request); a body that arrived is   *)
(* never answered with Err(Request).                                       *)
(***************************************************************************)
C26_ParseAndRequestKinds ==
    applied.some
        => LET a == applied.v
           IN  /\ (Arrived(a.response) /\ ~a.response.body.marker
                      /\ schema_of(a.response.body) # ExpectedSchema(T, a.op))
                     => a.result = ErrParse
               /\ (~a.response.sent \/ (a.response.status = 200 /\ ~a.response.arrives))
                     => (~a.result.ok /\ a.result.err = "Request")
               /\ (a.response.sent /\ a.response.arrives)
                     => (a.result.ok \/ a.result.err # "Request")

\* what the code keeps of it: a transport failure is Err(Request), and so is
\* a body that reqwest's json() cannot decode, on Safebooru, Gelbooru and
\* Danbooru; on Rule34, whose body is read as text and handed to serde_json,
\* a body that cannot be decoded is Err(Parse), but for the empty body, for
\* which get() answers Ok with no post
KindsOfFailure ==
    applied.some
        => LET a == applied.v
           IN  /\ (Arrived(a.response) /\ ~a.response.body.marker
                      /\ schema_of(a.response.body) # ExpectedSchema(T, a.op))
                     => IF T # "Rule34Client" THEN a.result = ErrRequest("decode")
                        ELSE IF a.op = "get" /\ a.response.body.text = ""
                        THEN a.result = OkPosts(<<>>)
                        ELSE a.result = ErrParse
               /\ (~a.response.sent \/ (a.response.status = 200 /\ ~a.response.arrives))
                     => (~a.result.ok /\ a.result.err = "Request")

(***************************************************************************)
(* C27, as stated: validate_tag_strict returns an error for every tag on   *)
(* which validate_tag reports a warning, with the first warning for its    *)
(* reason, and Ok for the tags without warnings only.                      *)
(***************************************************************************)
C27_WarningsAreFatal ==
    applied.some
        => LET a == applied.v
           IN  /\ ~a.result.ok <=> a.validation.warnings # <<>>
               /\ ~a.result.ok
                     => a.result.reason = TagWarningToString(a.validation.warnings[1])

(***************************************************************************)
(* C27, amended: validate_tag_strict returns an error for the tags that    *)
(* validate_tag reports invalid only, which is the empty tag, with the     *)
(* first warning, "Tag is empty", for its reason.  For every other tag,    *)
(* with warnings or without, it returns Ok: of the tag itself when there   *)
(* is no warning, of the tag trimmed, with its spaces turned into          *)
(* underscores, when validate_tag normalized it.                           *)
(***************************************************************************)
C27_OnlyTheEmptyTagIsFatal ==
    applied.some
        => LET a == applied.v
           IN  /\ ~a.result.ok <=> ~a.validation.is_valid
               /\ ~a.validation.is_valid <=> a.tag = <<>>
               /\ ~a.result.ok
                     => a.result = ErrInvalidTag(a.tag, "Tag is empty")
               /\ a.result.ok
                     => /\ \A i \in 1..Len(a.result.tag) : a.result.tag[i] # " "
                        /\ Len(a.result.tag) = Len(trim(a.tag))
                        /\ a.validation.warnings = <<>> => a.result.tag = a.tag

C27_Witness ==
    /\ applied.some
    /\ applied.v.tag = <<" ", "a", " ", "a">>
    /\ applied.v.validation.warnings # <<>>
    /\ applied.v.result = OkTag(<<"a", "_", "a">>)

\* the call of download_posts has returned
DownloadReturned == download.pc = "returned"

\* the result at index i is the one of the task spawned for post i, and it
\* names that post wherever a result names one
ResultOfPost(i) ==
    LET post == download.posts[i]
        r == download.results[i]
    IN  /\ download.handles[i].state = "finished"
        /\ r = unwrap_or_else(download.handles[i].out)
        /\ r.ok => post.file_url.some /\ r.path = generate_filename(post, post.file_url.v)
        /\ (~r.ok /\ ~post.file_url.some)
             => r.err = "InvalidUrl"
                /\ r.what \in {"Post " \o ToString(post.id) \o " has no file URL",
                               "Task panicked"}

OneResultPerPost ==
    DownloadReturned => /\ Len(download.results) = Len(download.posts)
                /\ \A i \in 1..Len(download.posts) : ResultOfPost(i)

\* C28: download_posts returns, whatever its concurrency argument and whatever
\* order its tasks finish in, and what it returns holds exactly one result per
\* input post, each at the index of its post.
C28_OneResultPerPost == []OneResultPerPost /\ <>DownloadReturned

\* The same for a concurrency the semaphore can be made of, and of at least 1
\* when there is a post to download: a concurrency of 0 leaves the first
\* acquire waiting for ever, and one above MAX_PERMITS panics.
HasPermits ==
    /\ ~download.concurrency.big
    /\ download.concurrency.n >= 1 \/ download.posts = <<>>

OneResultPerPostWithPermits == []OneResultPerPost /\ (HasPermits => <>DownloadReturned)

\* three posts were downloaded two at a time, and the results came back in the
\* order of the posts
ThreeResultsInOrder ==
    /\ DownloadReturned
    /\ download.concurrency = Usize(2)
    /\ Len(download.posts) = 3
    /\ download.results[1] = OkDownload("1.png", FALSE)
    /\ download.results[2] = ErrDownload("InvalidUrl", "Post 2 has no file URL")
    /\ download.results[3] = OkDownload("3.png", TRUE)

(***************************************************************************)
(* C29: rating, sort, random and blacklist_tag each append exactly one     *)
(* synthesized tag, and it takes a slot of the tag limit: a tag() call     *)
(* succeeds iff the backend has no limit or the list, user tags and        *)
(* synthesized tags together, is shorter than MAX_TAGS, and a failing one  *)
(* reports actual = the length of the list + 1.                            *)
(***************************************************************************)
\* the step appended the one tag x to the list
Appended(x) == tags' = Append(tags, x)

RatingTags == {rating_tag(r) : r \in Ratings}
SortTags(t) == {sort_tag(t, order) : order \in Sorts}
BlacklistTags == {blacklist(t) : t \in UserTags}
SynthesizedTags(t) == RatingTags \cup SortTags(t) \cup {random_tag(t)} \cup BlacklistTags

BelowLimit(t, ts) == MAX_TAGS(t).some => Len(ts) < MAX_TAGS(t).v

C29_SynthesizedTagsTakeSlots ==
    [][/\ ClientBuilder_rating => \E x \in RatingTags : Appended(x)
       /\ ClientBuilder_sort => \E x \in SortTags(T) : Appended(x)
       /\ ClientBuilder_random => Appended(random_tag(T))
       /\ ClientBuilder_blacklist_tag => \E x \in BlacklistTags : Appended(x)
       /\ ClientBuilder_tag
            => /\ bresult'.ok <=> BelowLimit(T, tags)
               /\ bresult'.ok => \E x \in UserTags : Appended(x)
               /\ ~bresult'.ok => /\ bresult'.err.kind = "TagLimitExceeded"
                                  /\ bresult'.err.actual = Len(tags) + 1
                                  /\ tags' = tags]_vars

\* tag() failed on a list of three synthesized tags, over the limit of two,
\* and reported four
C29_Witness ==
    /\ MAX_TAGS(T) = Some(2)
    /\ Len(tags) = 3
    /\ \A i \in 1..3 : tags[i] \in SynthesizedTags(T)
    /\ bstate = "dropped"
    /\ ~bresult.ok
    /\ bresult.err.actual = 4

(***************************************************************************)
(* C30: every builder operation leaves the tags already in the list where  *)
(* they are, in their order and with their duplicates, and at most appends *)
(* to them; limit, page, set_credentials and with_custom_url leave the     *)
(* list as it is; and get() sends the tags of the descriptor in that       *)
(* order, duplicates included, with one space between two neighbours.      *)
(***************************************************************************)
\* the strings of ts from the first on, one space before each but the first
RECURSIVE SpaceSeparated(_)
SpaceSeparated(ts) ==
    IF ts = <<>> THEN ""
    ELSE LET front == SubSeq(ts, 1, Len(ts) - 1)
         IN  IF front = <<>> THEN Last(ts)
             ELSE SpaceSeparated(front) \o " " \o Last(ts)

OnlyAppends == Len(tags') >= Len(tags) /\ SubSeq(tags', 1, Len(tags)) = tags

LeavesTagsAlone ==
    \/ ClientBuilder_limit
    \/ ClientBuilder_page
    \/ ClientBuilder_set_credentials
    \/ ClientBuilder_with_custom_url

C30_TagsKeptInOrderAndSent ==
    [][/\ OnlyAppends
       /\ LeavesTagsAlone => tags' = tags
       /\ Client_get => /\ Last(requests').tags = tags
                        /\ Last(requests').tag_string = SpaceSeparated(tags)]_vars

\* a client built after a tag was added twice, around a synthesized one and
\* with the other setters called, sent the three in the order they were added
C30_Witness ==
    /\ bstate = "built"
    /\ tags = <<"cat_ears", "rating:general", "cat_ears">>
    /\ credentials.some
    /\ url \in CustomUrls
    /\ requests # <<>>
    /\ Last(requests).tag_string = "cat_ears rating:general cat_ears"

(***************************************************************************)
(* C31: the k-th fetch of a PageStream asks for page (start page + k - 1)  *)
(* with the tags, limit, credentials and URL of the builder snapshot; a    *)
(* next() issues at most one fetch; the snapshot is never modified.        *)
(***************************************************************************)
\* a + n, not reduced modulo 2^32: above u32::MAX its high half is Half
PlusExact(a, n) == <<a[1] + (a[2] + n) \div Half, (a[2] + n) % Half>>

\* a + n modulo 2^32
RECURSIVE PlusWrapping(_, _)
PlusWrapping(a, n) == IF n = 0 THEN a ELSE PlusWrapping(wrapping_add1(a), n - 1)

\* the request for page p made from the snapshot
OfSnapshot(r, p) ==
    /\ r.client = T
    /\ r.tags = tags
    /\ r.tag_string = SpaceSeparated(tags)
    /\ r.limit = limit
    /\ r.credentials = credentials
    /\ r.url = url
    /\ r.page = p

SnapshotKept == UNCHANGED <<T, tags, limit, page, credentials, url>>

OneFetchAtMost ==
    \/ requests' = requests
    \/ Len(requests') = Len(requests) + 1 /\ SubSeq(requests', 1, Len(requests)) = requests

C31_FetchesFollowSnapshot ==
    [][stream = "PageStream"
         => /\ SnapshotKept
            /\ OneFetchAtMost
            /\ requests' # requests
                 => OfSnapshot(Last(requests'), PlusExact(page, Len(requests)))]_vars

\* The same with the page number taken modulo 2^32: where overflow is not
\* checked, the fetch after page u32::MAX asks for page 0.
FetchesFollowSnapshotModulo ==
    [][stream = "PageStream"
         => /\ SnapshotKept
            /\ OneFetchAtMost
            /\ requests' # requests
                 => OfSnapshot(Last(requests'), PlusWrapping(page, Len(requests)))]_vars

(***************************************************************************)
(* C32: when max_posts stops a PostStream, the posts fetched from the      *)
(* backend less the posts yielded are fewer than one page, whatever the    *)
(* page size and the cap.                                                  *)
(***************************************************************************)
\* next() has returned None at the max posts cap
StoppedByMaxPosts ==
    /\ stream = "PostStream"
    /\ ret = RetNone
    /\ cap_reached(posts_yielded, max_posts)

OverFetchBelow(P) == Len(fetched) * P - posts_yielded < P

C32_OverFetchBelowPageSize ==
    \A P \in 1..MaxPageLen :
        (StoppedByMaxPosts /\ PagesOfSize(P)) => OverFetchBelow(P)

\* The same for pages that do not hold exactly two posts: of a page of two
\* the second post is lost to the next fetch, which is made for one post each.
OverFetchBelowPageSizeButForTwo ==
    \A P \in (1..MaxPageLen) \ {2} :
        (StoppedByMaxPosts /\ PagesOfSize(P)) => OverFetchBelow(P)

(***************************************************************************)
(* C33: with_retry makes its first attempt without a delay; before its     *)
(* k-th retry, and after the attempt before it has completed, it sleeps    *)
(* delay_for_attempt(k), once; it returns a success at once, sleeps no     *)
(* more after its final failure, and returns the error of its last         *)
(* attempt.                                                                *)
(***************************************************************************)
\* the sleeps made so far are those of retries 1, 2, .. in this order
SleptBeforeEachRetry ==
    /\ Len(slept) = attempt
    /\ \A k \in 1..Len(slept) : slept[k] = delay_for_attempt(config, k)

C33_RetrySchedule ==
    /\ SleptBeforeEachRetry
    /\ retry.pc = "idle" => (invoked = 0 /\ slept = <<>>)
    /\ retry.pc = "loop" => invoked = Len(slept)
    /\ retry.pc = "returned"
         => /\ invoked = Len(slept) + 1
            /\ retry.result.kind \in {"Ok", "Err"}
            /\ retry.result.kind = "Err"
                 => (last_error.some /\ retry.result.err = last_error.v)

\* with_retry gave up after two retries: three attempts, two sleeps
C33_Witness ==
    /\ retry.pc = "returned"
    /\ retry.result.kind = "Err"
    /\ invoked = 3
    /\ Len(slept) = 2
    /\ slept[1] # slept[2]

(***************************************************************************)
(* C34: a page fetch answered with a 5xx status fails with an error that   *)
(* is_retryable calls retryable, so that with_retry around get() goes on   *)
(* to a retry after it.                                                    *)
(***************************************************************************)
\* what the reqwest::Error behind a BooruError::Request answers: a failure to
\* send is of kind Request, and may be a connect failure or a timeout; a body
\* that does not arrive is of kind Body, and may be a timeout; a body that
\* cannot be decoded is of kind Decode.  None carries a status: only
\* error_for_status makes an error of a status, and no client calls it.
reqwest_Error(why) ==
    CASE why = "send" ->
            {RequestError(FALSE, FALSE, None, TRUE), RequestError(FALSE, TRUE, None, TRUE),
             RequestError(TRUE, FALSE, None, TRUE)}
      [] why = "body" ->
            {RequestError(FALSE, FALSE, None, FALSE), RequestError(TRUE, FALSE, None, FALSE)}
      [] why = "decode" -> {RequestError(FALSE, FALSE, None, FALSE)}

\* the BooruError values a failed call of a client may hold
BooruErrorOf(r) ==
    IF r.err = "Request" THEN reqwest_Error(r.why) ELSE {[kind |-> r.err]}

\* with_retry, on its first attempt and allowed a retry, goes on after e
GoesOnAfter(e) ==
    /\ is_retryable(e)
    /\ retry_match(RetryConfig_default, 0, [ok |-> FALSE, err |-> e]).pc = "loop"

ServerError(resp) == resp.sent /\ is_server_error(resp.status)

C34_ServerErrorsRetried ==
    (applied.some /\ applied.v.op = "get" /\ ServerError(applied.v.response))
        => /\ ~applied.v.result.ok
           /\ \A e \in BooruErrorOf(applied.v.result) : GoesOnAfter(e)

\* What the code does with a 5xx answer whose body arrives: the status is not
\* looked at, the body is decoded as any other, and the call returns the posts
\* written in it or an error that is not retried.
ServerErrorsNeverRetried ==
    (applied.some /\ applied.v.op = "get" /\ ServerError(applied.v.response)
        /\ applied.v.response.arrives)
        => /\ applied.v.result = get(T, [applied.v.response EXCEPT !.status = 200])
           /\ ~applied.v.result.ok
                => \A e \in BooruErrorOf(applied.v.result) : ~is_retryable(e)

(***************************************************************************)
(* C35: the current_page of a PageStream is its start page plus the number *)
(* of non-empty pages next() has returned: one more for each non-empty     *)
(* page, never less than before, and as it was after a next() that         *)
(* returned an empty page, an error or None.                               *)
(***************************************************************************)
C35_CursorCountsNonEmptyPages ==
    stream = "PageStream" => current_page = PlusExact(page, NumNonEmptyPages(returned))

\* The same modulo 2^32: where overflow is not checked, the non-empty page
\* at u32::MAX takes the cursor back to 0.
CursorCountsNonEmptyPagesModulo ==
    stream = "PageStream" => current_page = PlusWrapping(page, NumNonEmptyPages(returned))

(***************************************************************************)
(* C36: the lazy removal of a get(k) that found the entry under k expired  *)
(* removes that expired entry only: an entry stored under k by an insert   *)
(* that ran between the test under the read lock and the removal under the *)
(* write lock, and that is not expired, is still there afterwards.         *)
(***************************************************************************)
\* task t is between the read section of a get that found its key expired
\* and the removal
RemovesLazily(t) == Cache_get_write(t) /\ cache_tasks[t].pc = "expired"

Fresh_at(k) == entries[k].some /\ ~is_expired(entries[k].v, now)

C36_RemovesOnlyTheExpiredEntry ==
    [][\A t \in Tasks :
         (RemovesLazily(t) /\ Fresh_at(cache_tasks[t].key))
            => entries'[cache_tasks[t].key] = entries[cache_tasks[t].key]]_vars

\* What the removal does: it takes out whatever is under the key when it gets
\* the write lock, and leaves the other keys alone.
LazyRemovalTakesTheKey ==
    [][\A t \in Tasks :
         RemovesLazily(t) => entries' = [entries EXCEPT ![cache_tasks[t].key] = None]]_vars

(***************************************************************************)
(* C37: whatever the interleaving of the tasks sharing a RateLimiter, the  *)
(* number of successful acquisitions (acquire calls that returned and      *)
(* try_acquire calls that returned true) made up to a time t after the     *)
(* creation is at most capacity + t * capacity / refill_interval.          *)
(***************************************************************************)
\* the acquisitions logged at time t or before
AcquiredBy(t) ==
    Cardinality({i \in 1..Len(calls) : Acquisition(calls[i]) /\ calls[i].at <= t})

\* both sides times refill_interval, to stay in whole numbers
C37_AcquisitionsBounded ==
    \A t \in 0..now :
        AcquiredBy(t) * refill_interval <= capacity * refill_interval + t * capacity

\* the bound is met: two tasks have taken, by both calls, every token there
\* has been since the creation
C37_Witness ==
    /\ now > 0
    /\ capacity > 1
    /\ AcquiredBy(0) = capacity
    /\ AcquiredBy(now) > capacity
    /\ AcquiredBy(now) * refill_interval = capacity * refill_interval + now * capacity
    /\ \E i \in 1..Len(calls) : calls[i].op = "acquire"
    /\ \E i \in 1..Len(calls) : calls[i].op = "try_acquire" /\ calls[i].result

(***************************************************************************)
(* C38: on a limiter of capacity 1 or more, shared by tasks that call      *)
(* acquire and try_acquire in any order, every acquire that                *)
(* went to sleep returns in the end, time advancing; and a task that       *)
(* sleeps holds nothing another task waits for: whatever the sleepers, a   *)
(* step can be taken until every call has returned.                        *)
(***************************************************************************)
\* with a task asleep, the clock or that task can move
NoDeadlock ==
    \A t \in Tasks :
        (capacity >= 1 /\ Sleeping(t))
            => ENABLED (Tick \/ sleep_elapses \/ RateLimiter_acquire_woken(t))

\* a sleeper keeps no other task from its critical section
SleeperBlocksNobody ==
    \A t, u \in Tasks :
        (Sleeping(t) /\ u # t /\ CallStarts(u))
            => /\ ENABLED RateLimiter_acquire(u)
               /\ ENABLED RateLimiter_try_acquire(u)

C38_EveryAcquireReturns ==
    /\ []NoDeadlock
    /\ []SleeperBlocksNobody
    /\ \A t \in Tasks : (capacity >= 1 /\ Sleeping(t)) ~> (tasks[t].pc = "idle")

\* the bucket was emptied at time 0, and two acquire calls that had to sleep
\* have returned one after the other
C38_Witness ==
    /\ capacity >= 1
    /\ AcquiredBy(0) = capacity
    /\ Len(calls) = capacity + 2
    /\ calls[capacity + 1].op = "acquire"
    /\ calls[capacity + 2].op = "acquire"
    /\ 0 < calls[capacity + 1].at
    /\ calls[capacity + 1].at < calls[capacity + 2].at
    /\ \A t \in Tasks : tasks[t].pc = "idle"

(***************************************************************************)
(* C39: draining a PostStream comes to an end: once a cap (max_posts or    *)
(* max_pages) is set on the stream, or the backend has answered a fetch    *)
(* with an empty page or an error, collect() returns in the end, and the   *)
(* fetches issued on the way are counted by the caps: finitely many.       *)
(***************************************************************************)
\* a cap is on the stream before its first fetch
CapSet == requests = <<>> /\ (max_posts.some \/ max_pages.some)

\* the backend has answered a fetch with an error or an empty page
BackendEnded ==
    \E k \in 1..Len(fetched) : ~fetched[k].ok \/ fetched[k].posts = <<>>

Collected == collect.pc = "returned"

\* a fetch is issued
Fetching == Len(requests') > Len(requests)

\* what makes the fetches finitely many: a fetch is issued only while fewer
\* pages than max_pages were fetched and fewer posts than max_posts yielded,
\* and none after an empty page or an error
FetchesCounted ==
    /\ max_pages.some => Len(requests) < max_pages.v
    /\ max_posts.some => posts_yielded < max_posts.v
    /\ ~BackendEnded

C39_DrainTerminates ==
    /\ [][Fetching => FetchesCounted]_vars
    /\ (CapSet \/ BackendEnded) ~> Collected

\* The same for the streams that start where the cursor cannot pass u32::MAX.
DrainTerminatesBelowMax ==
    /\ [][(page # U32_MAX /\ Fetching) => FetchesCounted]_vars
    /\ (page # U32_MAX /\ (CapSet \/ BackendEnded)) ~> Collected

(***************************************************************************)
(* C40: download_posts never has more than `concurrency` of its tasks in   *)
(* flight, a task holding one permit of the semaphore from its spawn to    *)
(* its end; every task that was spawned ends and gives its permit back;    *)
(* and in the end a task has run for every post.                           *)
(***************************************************************************)
\* the tasks spawned and not finished
InFlight == {i \in 1..Len(download.handles) : download.handles[i] = Running}

\* the permits are those of the semaphore less one per task in flight
FanOutBounded ==
    /\ ~download.concurrency.big => Cardinality(InFlight) <= download.concurrency.n
    /\ download.pc = "running"
         => Cardinality(InFlight) + download.permits = download.concurrency.n

AllProcessed ==
    /\ Len(download.handles) = Len(download.posts)
    /\ InFlight = {}

EveryTaskEnds ==
    \A i \in 1..MaxDownloads : (i \in InFlight) ~> (i \notin InFlight)

C40_FanOutBoundedAllProcessed ==
    /\ []FanOutBounded
    /\ EveryTaskEnds
    /\ <>AllProcessed

\* The same, with all the posts processed only where the semaphore has a
\* permit to give (see HasPermits).
FanOutBoundedProcessedWithPermits ==
    /\ []FanOutBounded
    /\ EveryTaskEnds
    /\ HasPermits => <>AllProcessed

=============================================================================
